---- MODULE Spec2Model ----
(***************************************************************************)
(* Transceiver management engine of the LibertyTrail platform              *)
(* (platform_mgmt.c) as a state machine.                                   *)
(*                                                                         *)
(* The per-port transceiver records (xcvrInfo) are the state.  The sweeps  *)
(* of the management code are the actions.  A sweep that walks the         *)
(* hardware-resource list (fmPlatformMgmtXcvrInitialize, XcvrUpdateState)  *)
(* advances one list entry per step, the position being part of the state; *)
(* the values the platform library returns for an entry are drawn when the *)
(* entry is consumed.  Every call the code makes to a collaborator         *)
(* (EEPROM read, I2C write, PHY driver, SerDes configuration, upward       *)
(* notifications, the state-change debug log) is appended to `trace`,      *)
(* which holds the calls of the step that produced the current state.      *)
(***************************************************************************)
EXTENDS Integers, Sequences, FiniteSets, TLC

VARIABLES
    cfg,        \* platform configuration: ports and EPL lane map (immutable)
    xcvrInfo,   \* GET_PLAT_STATE(sw)->xcvrInfo[portIdx]
    enableMgmt, \* static fm_bool enableMgmt
    pc,         \* position of the management code
    list,       \* hwResIdIdxList of the sweep in progress
    hwResIdList, \* hwResIdList of the sweep in progress
    pos,        \* hwResIdIdx: next entry of list to process
    force,      \* the force argument of the XcvrUpdateState in progress
    last,       \* the last step: the function, the port index, the force flag
    trace,      \* collaborator calls made by the last step
    cfgCall,    \* XcvrRetryConfig in progress: its ConfigureSfppXcvr call
    portExt,    \* GET_PORT_EXT(sw, port): the autonegotiation fields
    portAttr,   \* GET_PORT_ATTR(sw, port): the autonegotiation attributes
    portAttrExt, \* GET_FM10000_PORT_ATTR(sw, port): the link inhibit timers
    mgmtSem,    \* static fm_semaphore mgmtSem: the callers whose signal is pending
    pollingPendingTask, \* static fm_bool pollingPendingTask
    pollXcvrStatus,     \* fmPlatformMgmtThread: pollXcvrStatus
    interruptFlag,      \* fmPlatformMgmtThread: interrupt
    threadPc,   \* position of fmPlatformMgmtThread in its loop
    signalPc,   \* position of a caller of fmPlatformMgmtSignalPollingThread
    switchLock, \* the management thread holds the switch lock
    iter        \* the current iteration of the thread: how it was woken,
                \* what it has called

(* The state of the autonegotiation code (fm10000_api_an.c) *)
anVars == <<portExt, portAttr, portAttrExt>>

(* The state of the transceiver management code (platform_mgmt.c) *)
mgmtVars == <<cfg, xcvrInfo, enableMgmt, pc, list, hwResIdList, pos, force, cfgCall>>

(* The state of the management thread and of its wake-up *)
threadVars == <<mgmtSem, pollingPendingTask, pollXcvrStatus, interruptFlag,
                threadPc, signalPc, switchLock, iter>>

vars == <<cfg, xcvrInfo, enableMgmt, pc, list, hwResIdList, pos, force, last, trace, cfgCall,
          portExt, portAttr, portAttrExt, mgmtSem, pollingPendingTask,
          pollXcvrStatus, interruptFlag, threadPc, signalPc, switchLock, iter>>

----------------------------------------------------------------------------
(* Program constants *)

MAX_EEPROM_READ_RETRY == 4

MAX_CONFIG_RETRY == 4

FM_PLAT_UNDEFINED == -1

FM_OK == "FM_OK"

FM_FAIL == "FM_FAIL"

(* Module state bits (fm_uint32 bit mask, modelled as a set of bit names) *)
XcvrBits == {"PRESENT", "ENABLE", "RXLOS", "TXFAULT", "INTR"}

(* Ethernet modes used by the modelled port configurations *)
EthModes == {"DISABLED", "SGMII", "1000BASE_X", "1000BASE_KX",
             "10GBASE_SR", "40GBASE_SR4"}

(* mode & FM_ETH_MODE_MULTI_LANE_MASK *)
IsMultiLane(mode) == mode \in {"40GBASE_SR4"}

----------------------------------------------------------------------------
(* Cached EEPROM contents.  The 256-byte cache is represented by the       *)
(* module image it holds: "00" is the buffer zeroed at allocation, "FF"    *)
(* the buffer filled with 0xFF, the others are the dumps of four modules.  *)

ModuleImages == {"DR", "T", "DAC", "BAD"}

EepromImages == {"00", "FF"} \cup ModuleImages

(* fmPlatformXcvrEepromIsBaseCsumValid *)
EepromIsBaseCsumValid(eeprom) == eeprom \in {"DR", "T", "DAC"}

(* fmPlatformXcvrEepromIsExtCsumValid *)
EepromIsExtCsumValid(eeprom) == eeprom \in {"DR", "T"}

(* fmPlatformXcvrEepromGetType *)
EepromGetType(eeprom) ==
    CASE eeprom = "DR"  -> "SFP_OPT"
      [] eeprom = "T"   -> "1000BASE_T"
      [] eeprom = "DAC" -> "SFP_DAC"
      [] OTHER          -> "UNKNOWN"

(* fmPlatformXcvrEepromGetLen *)
EepromGetLen(eeprom) == IF eeprom = "DAC" THEN 3 ELSE 0

(* fmPlatformXcvrIs1000BaseT *)
XcvrIs1000BaseT(eeprom) == eeprom = "T"

(* fmPlatformXcvrIs10G1G *)
XcvrIs10G1G(eeprom) == eeprom = "DR"

----------------------------------------------------------------------------
(* Platform configuration.  Port indices start at 0 as in the code.        *)

PortCfg(port, intfType, epl, hwResourceId, ethMode) ==
    [port |-> port, intfType |-> intfType, epl |-> epl,
     hwResourceId |-> hwResourceId, ethMode |-> ethMode]

(* What the hardware behind a cage can do in the modelled runs: the bits   *)
(* the library may report as valid, the bits it may report as set, the     *)
(* modules that may be plugged in, and whether I2C to the module may fail. *)
Cage(validMasks, states, modules, ioFails) ==
    [validMasks |-> validMasks, states |-> states,
     modules |-> modules, ioFails |-> ioFails]

(* The valid masks a cage reports: both pins, or one of them *)
ValidMasks == {{"PRESENT", "ENABLE"}, {"ENABLE"}, {"PRESENT"}}

(* A cage whose PRESENT and ENABLE pins are reported in any combination,   *)
(* holding any module, with I2C that may fail                              *)
RichCage == Cage(ValidMasks, SUBSET {"PRESENT", "ENABLE"},
                 ModuleImages, {TRUE, FALSE})

(* A QSFP cage: the modules it takes are cables *)
QsfpCage == Cage(ValidMasks, SUBSET {"PRESENT", "ENABLE"}, {"DAC", "BAD"}, {FALSE})

(* A cage that stays empty: the pins are valid and never set *)
EmptyCage == Cage({{"PRESENT", "ENABLE"}}, {{}}, {}, {FALSE})

(* A platform library without port interrupts, and one with them: the     *)
(* capabilities the management code tests (FM_PLAT_GET_LIB_FUNCS_PTR)      *)
PollingLib == [GetPortXcvrState |-> TRUE, GetPortIntrPending |-> FALSE,
               SelectBus |-> TRUE, I2cWriteRead |-> TRUE]

InterruptLib == [GetPortXcvrState |-> TRUE, GetPortIntrPending |-> TRUE,
                 SelectBus |-> TRUE, I2cWriteRead |-> TRUE]

(* An SFP+ cage for a cable, with I2C that does not fail *)
CableCage == Cage({{"PRESENT", "ENABLE"}}, SUBSET {"PRESENT", "ENABLE"},
                  {"DAC"}, {FALSE})

(* The SFP+ board with port interrupts and a bus multiplexer that may fail *)
(* to select the transceiver bus                                           *)
BusBoards ==
    { [ports |-> [i \in 0..3 |->
                    CASE i = 0 -> PortCfg(11, "SFPP", 0, 100, "10GBASE_SR")
                      [] i = 1 -> PortCfg(12, "SFPP", 1, 101, "10GBASE_SR")
                      [] i = 2 -> PortCfg(13, "NONE", 2, 102, "10GBASE_SR")
                      [] OTHER -> PortCfg(14, "NONE", 3, 103, "DISABLED")],
       epls  |-> [e \in 0..3 |-> [laneToPortIdx |->
                    [l \in 0..3 |-> IF l = 0 THEN e ELSE FM_PLAT_UNDEFINED]]],
       cages |-> [i \in 0..3 |-> IF i = 1 THEN CableCage ELSE EmptyCage],
       libFunc |-> InterruptLib,
       selectBus |-> {FM_OK, FM_FAIL},
       xcvrPollPeriodMsec |-> 1000,
       apiPorts |-> {12},
       queryPorts |-> {12}] }

(* An SFP+ cage for a cable that is plugged or not *)
PlugCage == Cage({{"PRESENT", "ENABLE"}}, {{"PRESENT", "ENABLE"}, {}},
                 {"DAC"}, {FALSE})

(* The SFP+ board with port interrupts the management thread is followed   *)
(* on                                                                      *)
ThreadBoards ==
    { [ports |-> [i \in 0..3 |->
                    CASE i = 0 -> PortCfg(11, "SFPP", 0, 100, "10GBASE_SR")
                      [] i = 1 -> PortCfg(12, "SFPP", 1, 101, "10GBASE_SR")
                      [] i = 2 -> PortCfg(13, "NONE", 2, 102, "10GBASE_SR")
                      [] OTHER -> PortCfg(14, "NONE", 3, 103, "DISABLED")],
       epls  |-> [e \in 0..3 |-> [laneToPortIdx |->
                    [l \in 0..3 |-> IF l = 0 THEN e ELSE FM_PLAT_UNDEFINED]]],
       cages |-> [i \in 0..3 |-> IF i = 1 THEN PlugCage ELSE EmptyCage],
       libFunc |-> InterruptLib,
       selectBus |-> {FM_OK},
       xcvrPollPeriodMsec |-> 1000,
       apiPorts |-> {12},
       queryPorts |-> {12}] }

(* An SFP+ cage that holds a dual-rate module, plugged or not, with I2C    *)
(* that does not fail                                                      *)
DualRateCage == Cage({{"PRESENT", "ENABLE"}}, {{"PRESENT", "ENABLE"}, {}},
                     {"DR"}, {FALSE})

(* The SFP+ board whose ethernet mode the API changes, with the polling   *)
(* thread (xcvrPollPeriodMsec # 0) and without it                         *)
EthModeBoards ==
    { [ports |-> [i \in 0..3 |->
                    CASE i = 0 -> PortCfg(11, "SFPP", 0, 100, "10GBASE_SR")
                      [] i = 1 -> PortCfg(12, "SFPP", 1, 101, "10GBASE_SR")
                      [] i = 2 -> PortCfg(13, "NONE", 2, 102, "10GBASE_SR")
                      [] OTHER -> PortCfg(14, "NONE", 3, 103, "DISABLED")],
       epls  |-> [e \in 0..3 |-> [laneToPortIdx |->
                    [l \in 0..3 |-> IF l = 0 THEN e ELSE FM_PLAT_UNDEFINED]]],
       cages |-> [i \in 0..3 |-> IF i = 0 THEN DualRateCage ELSE EmptyCage],
       libFunc |-> PollingLib,
       selectBus |-> {FM_OK},
       xcvrPollPeriodMsec |-> period,
       apiPorts |-> {11, 99},
       queryPorts |-> {11}] : period \in {0, 1000} }

(* An SFP+ cage that holds a dual-rate module, plugged or not, with I2C    *)
(* that may fail                                                           *)
FailingCage == Cage({{"PRESENT", "ENABLE"}}, {{"PRESENT", "ENABLE"}, {}},
                    {"DR"}, {TRUE, FALSE})

(* The SFP+ board with both cages in use *)
TwoCageBoards ==
    { [ports |-> [i \in 0..3 |->
                    CASE i = 0 -> PortCfg(11, "SFPP", 0, 100, "10GBASE_SR")
                      [] i = 1 -> PortCfg(12, "SFPP", 1, 101, "10GBASE_SR")
                      [] i = 2 -> PortCfg(13, "NONE", 2, 102, "10GBASE_SR")
                      [] OTHER -> PortCfg(14, "NONE", 3, 103, "DISABLED")],
       epls  |-> [e \in 0..3 |-> [laneToPortIdx |->
                    [l \in 0..3 |-> IF l = 0 THEN e ELSE FM_PLAT_UNDEFINED]]],
       cages |-> [i \in 0..3 |-> CASE i = 0 -> FailingCage
                                    [] i = 1 -> DualRateCage
                                    [] OTHER -> EmptyCage],
       libFunc |-> PollingLib,
       selectBus |-> {FM_OK},
       xcvrPollPeriodMsec |-> 1000,
       apiPorts |-> {11},
       queryPorts |-> {11}] }

(* An SFP+ cage whose RXLOS and TXFAULT pins are reported too, holding a    *)
(* passive cable or a dual-rate module, with I2C that may fail             *)
SignalCage == Cage({{"PRESENT", "ENABLE", "RXLOS", "TXFAULT"}},
                   {{}, {"PRESENT", "ENABLE"},
                    {"PRESENT", "ENABLE", "RXLOS"},
                    {"PRESENT", "ENABLE", "TXFAULT"}},
                   {"DAC", "DR"}, {TRUE, FALSE})

(* The SFP+ board with the signal pins of the cage of port index 1 wired *)
SignalBoards ==
    { [ports |-> [i \in 0..3 |->
                    CASE i = 0 -> PortCfg(11, "SFPP", 0, 100, "10GBASE_SR")
                      [] i = 1 -> PortCfg(12, "SFPP", 1, 101, "10GBASE_SR")
                      [] i = 2 -> PortCfg(13, "NONE", 2, 102, "10GBASE_SR")
                      [] OTHER -> PortCfg(14, "NONE", 3, 103, "DISABLED")],
       epls  |-> [e \in 0..3 |-> [laneToPortIdx |->
                    [l \in 0..3 |-> IF l = 0 THEN e ELSE FM_PLAT_UNDEFINED]]],
       cages |-> [i \in 0..3 |-> IF i = 1 THEN SignalCage ELSE EmptyCage],
       libFunc |-> PollingLib,
       selectBus |-> {FM_OK},
       xcvrPollPeriodMsec |-> 1000,
       apiPorts |-> {12},
       queryPorts |-> {12}] }

(* An SFP+ cage that stays empty and answers no I2C read *)
VacantCage == Cage({{"PRESENT", "ENABLE"}}, {{}}, {}, {TRUE})

(* The SFP+ board with port interrupts whose library also reports the      *)
(* interrupt of a cage that no port of the port table stands for           *)
StrayBoards ==
    { [ports |-> [i \in 0..3 |->
                    CASE i = 0 -> PortCfg(11, "SFPP", 0, 100, "10GBASE_SR")
                      [] i = 1 -> PortCfg(12, "SFPP", 1, 101, "10GBASE_SR")
                      [] i = 2 -> PortCfg(13, "NONE", 2, 102, "10GBASE_SR")
                      [] OTHER -> PortCfg(14, "NONE", 3, 103, "DISABLED")],
       epls  |-> [e \in 0..3 |-> [laneToPortIdx |->
                    [l \in 0..3 |-> IF l = 0 THEN e ELSE FM_PLAT_UNDEFINED]]],
       cages |-> [i \in 0..3 |-> CASE i = 0 -> VacantCage
                                    [] i = 1 -> PlugCage
                                    [] OTHER -> EmptyCage],
       strayIds |-> {104},
       strayCage |-> PlugCage,
       libFunc |-> InterruptLib,
       selectBus |-> {FM_OK},
       xcvrPollPeriodMsec |-> 1000,
       apiPorts |-> {12},
       queryPorts |-> {12}] }

(* Two SFP+ cages (port index 0 and 1) and two ports without transceiver.  *)
(* One of the cages is in use.                                             *)
SfppBoard(rich, m0, m1) ==
    [ports |-> [i \in 0..3 |->
                  CASE i = 0 -> PortCfg(11, "SFPP", 0, 100, m0)
                    [] i = 1 -> PortCfg(12, "SFPP", 1, 101, m1)
                    [] i = 2 -> PortCfg(13, "NONE", 2, 102, "10GBASE_SR")
                    [] OTHER -> PortCfg(14, "NONE", 3, 103, "DISABLED")],
     epls  |-> [e \in 0..3 |-> [laneToPortIdx |->
                  [l \in 0..3 |-> IF l = 0 THEN e ELSE FM_PLAT_UNDEFINED]]],
     cages |-> [i \in 0..3 |-> IF i = rich THEN RichCage ELSE EmptyCage],
     libFunc |-> PollingLib,
     selectBus |-> {FM_OK},
     xcvrPollPeriodMsec |-> 1000,
     apiPorts |-> {10 + rich + 1, 99},
     queryPorts |-> {10 + rich + 1, 99}]

SfppBoards ==
    { SfppBoard(1, "10GBASE_SR", m1)
      : m1 \in {"DISABLED", "SGMII", "1000BASE_X", "1000BASE_KX", "10GBASE_SR"} }
    \cup { SfppBoard(0, "10GBASE_SR", "10GBASE_SR") }

(* One QSFP cage on EPL 0, whose lanes 0, 1 and 3 have a logical port,     *)
(* and one empty SFP+ cage on EPL 1                                        *)
QsfpBoards ==
    { [ports |-> [i \in 0..3 |->
                    CASE i = 0 -> PortCfg(21, "QSFP_LANE0", 0, 200, m0)
                      [] i = 1 -> PortCfg(22, "QSFP_LANE1", 0, 201, m1)
                      [] i = 2 -> PortCfg(24, "QSFP_LANE3", 0, 203, m3)
                      [] OTHER -> PortCfg(25, "SFPP", 1, 204, "10GBASE_SR")],
       epls  |-> [e \in 0..1 |-> [laneToPortIdx |->
                    [l \in 0..3 |->
                       IF e = 0
                       THEN CASE l = 0 -> 0 [] l = 1 -> 1
                              [] l = 3 -> 2 [] OTHER -> FM_PLAT_UNDEFINED
                       ELSE IF l = 0 THEN 3 ELSE FM_PLAT_UNDEFINED]]],
       cages |-> [i \in 0..3 |-> IF i = 0 THEN QsfpCage ELSE EmptyCage],
       libFunc |-> PollingLib,
       selectBus |-> {FM_OK},
       xcvrPollPeriodMsec |-> 1000,
       apiPorts |-> {21, 99},
       queryPorts |-> {21, 22, 24, 99}]
      : m0 \in {"DISABLED", "10GBASE_SR", "40GBASE_SR4"},
        m1 \in {"DISABLED", "10GBASE_SR"},
        m3 \in {"DISABLED", "10GBASE_SR"} }

(* fmPlatformCfgPortGetIndex(sw, port): the index of a logical port, or -1 *)
CfgPortGetIndex(port) ==
    IF \E i \in DOMAIN cfg.ports : cfg.ports[i].port = port
    THEN CHOOSE i \in DOMAIN cfg.ports : cfg.ports[i].port = port
    ELSE -1

(* FM_PLAT_NUM_PORT(sw) *)
NumPort == Cardinality(DOMAIN cfg.ports)

PortIdxs == DOMAIN cfg.ports

(* The platform library of the board: libFunc = FM_PLAT_GET_LIB_FUNCS_PTR(sw) *)
libFunc == cfg.libFunc

IsXcvrIntf(portIdx) ==
    cfg.ports[portIdx].intfType \in {"SFPP", "QSFP_LANE0"}

(* Port indices with a transceiver, ascending: the hardware-resource list  *)
(* built when all ports are updated.                                       *)
RECURSIVE XcvrPortList(_)
XcvrPortList(portIdx) ==
    IF portIdx >= NumPort THEN <<>>
    ELSE (IF IsXcvrIntf(portIdx) THEN <<portIdx>> ELSE <<>>)
         \o XcvrPortList(portIdx + 1)

(* hwResIdList[numPorts] = portCfg->hwResourceId, for the ports of a list *)
HwResIds(lst) == [k \in DOMAIN lst |-> cfg.ports[lst[k]].hwResourceId]

----------------------------------------------------------------------------
(* Collaborator calls.  One record per call, in call order.                *)
(*   XcvrEepromRead            a: "first" | "retry" (the caller's flag)    *)
(*                             b: eepromReadRetries when the read is made  *)
(*   SetPortSerdesTxCfg        a: "multi" | "single"   b: ethernet mode    *)
(*   XcvrMemWrite              a: offset in device 1   b: byte written     *)
(*   PhyEnable1000BaseTAutoNeg a: enable                                   *)
(*   ConfigureSfppXcvr         the status ConfigureSfppXcvr returns        *)
(*   NotifyXcvrChange          a: lane                 b: xcvrSignals      *)
(*   EventSendPortXcvrState    a: "NA" | "ALL"         b: xcvrSignals      *)
(*   PresenceChanged, EnableChanged, RxlosChanged, TxfaultChanged,         *)
(*   TAKE_PLAT_I2C_BUS_LOCK, DROP_PLAT_I2C_BUS_LOCK, SelectBus,            *)
(*   GetPortXcvrState          calls on the bus (port -1)                  *)
(*   GetPortIntrPending        a: number of pending ports (port -1)        *)
(*   IntrChanged               the MOD_STATE_DEBUG line of a detected      *)
(*                             change, a: the new value of the bit         *)

Ev(op, port, a, b, status) ==
    [op |-> op, port |-> port, a |-> a, b |-> b, status |-> status]

(* Outcomes of the I/O of one ConfigureSfppXcvr call: the first operation  *)
(* that fails (the call returns at the first failure) and the value of the *)
(* port's FM_PORT_AUTONEG attribute.                                       *)
IoOutcomes(portIdx) ==
    [failAt : IF TRUE \in cfg.cages[portIdx].ioFails
              THEN {"none", "w110", "w118", "phy"} ELSE {"none"},
     autoneg : {"NONE", "SGMII", "CLAUSE_37"}]

NoIo == [failAt |-> "none", autoneg |-> "NONE"]

(* Outcomes of one fmPlatformXcvrEepromRead: failure, or the module's dump *)
ReadOutcomes(portIdx) ==
    (IF TRUE \in cfg.cages[portIdx].ioFails THEN {FM_FAIL} ELSE {})
    \cup cfg.cages[portIdx].modules

IoStatus(io, op) == IF io.failAt = op THEN FM_FAIL ELSE FM_OK

IsSfppModule1000BaseT(x) ==
    IF x.eepromBaseValid THEN XcvrIs1000BaseT(x.eeprom) ELSE FALSE

IsSfppModuleDualRate(x) ==
    IF x.eepromBaseValid THEN XcvrIs10G1G(x.eeprom) ELSE FALSE

IsSfppPort1G(x) ==
    x.ethMode \in {"DISABLED", "SGMII", "1000BASE_X", "1000BASE_KX"}

IsPortAnEnabled(io) == io.autoneg \in {"SGMII", "CLAUSE_37"}

(* A faulty variant: the rate select is written for RX only *)
ConfigureDualRateRxOnly(tr, port, x, io) ==
    LET data == IF IsSfppPort1G(x) THEN 0 ELSE 8
        w110 == Ev("XcvrMemWrite", port, 110, data, IoStatus(io, "w110"))
    IN  [tr |-> tr \o <<w110>>, status |-> IoStatus(io, "w110")]

(* The dual-rate part of ConfigureSfppXcvr: rate select for RX (110) and   *)
(* TX (118).  Returns the trace and the status; a status other than FM_OK  *)
(* is the return value of ConfigureSfppXcvr.                               *)
ConfigureDualRate(tr, port, x, io) ==
    LET data == IF IsSfppPort1G(x) THEN 0 ELSE 8
        w110 == Ev("XcvrMemWrite", port, 110, data, IoStatus(io, "w110"))
        w118 == Ev("XcvrMemWrite", port, 118, data, IoStatus(io, "w118"))
    IN  IF IoStatus(io, "w110") # FM_OK
        THEN [tr |-> tr \o <<w110>>, status |-> FM_FAIL]
        ELSE [tr |-> tr \o <<w110, w118>>, status |-> IoStatus(io, "w118")]

(* The 1000BASE-T part of ConfigureSfppXcvr.  The cached anEnabled is      *)
(* compared with the port attribute; it is not written.                    *)
Configure1000BaseT(tr, port, x, io) ==
    LET enable == IsPortAnEnabled(io)
    IN  IF x.anEnabled # enable
        THEN [tr |-> tr \o <<Ev("PhyEnable1000BaseTAutoNeg", port, enable, 0,
                                IoStatus(io, "phy"))>>,
              status |-> IoStatus(io, "phy")]
        ELSE [tr |-> tr, status |-> FM_OK]

(* ConfigureSfppXcvr(sw, port, xcvrInfo): m is the machine state           *)
(* [xi: the records, tr: the trace]; the result adds the status returned.  *)
ConfigureSfppXcvr(m, port, portIdx, io) ==
    LET x == m.xi[portIdx]
        Return(tr, status) ==
            [xi |-> m.xi,
             tr |-> tr \o <<Ev("ConfigureSfppXcvr", port, 0, 0, status)>>,
             status |-> status]
    IN  IF "ENABLE" \notin x.modState THEN Return(m.tr, FM_OK)
        ELSE LET d == IF IsSfppModuleDualRate(x)
                      THEN ConfigureDualRate(m.tr, port, x, io)
                      ELSE [tr |-> m.tr, status |-> FM_OK]
             IN  IF d.status # FM_OK THEN Return(d.tr, d.status)
                 ELSE LET t == IF IsSfppModule1000BaseT(x)
                               THEN Configure1000BaseT(d.tr, port, x, io)
                               ELSE [tr |-> d.tr, status |-> FM_OK]
                      IN  Return(t.tr, t.status)

(* Whether ConfigureSfppXcvr on record x performs I/O (so that its         *)
(* outcome matters).                                                       *)
ConfigureDoesIo(x) ==
    "ENABLE" \in x.modState /\ (IsSfppModuleDualRate(x) \/ IsSfppModule1000BaseT(x))

SerdesEv(portIdx, xi, multi) ==
    Ev("SetPortSerdesTxCfg", cfg.ports[portIdx].port,
       IF multi THEN "multi" ELSE "single", xi[portIdx].ethMode, FM_OK)

(* UpdateSerdesSettings(sw, portIndex) *)
UpdateSerdesSettings(m, portIdx) ==
    LET portCfg == cfg.ports[portIdx]
        lanePort(lane) == cfg.epls[portCfg.epl].laneToPortIdx[lane]
        laneEv(lane) == IF lanePort(lane) # FM_PLAT_UNDEFINED
                        THEN <<SerdesEv(lanePort(lane), m.xi, FALSE)>>
                        ELSE <<>>
        entry == <<Ev("UpdateSerdesSettings", portCfg.port, 0, 0, FM_OK)>>
    IN  IF portCfg.intfType = "SFPP"
        THEN [m EXCEPT !.tr = @ \o entry \o <<SerdesEv(portIdx, m.xi, FALSE)>>]
        ELSE IF portCfg.intfType = "QSFP_LANE0"
        THEN IF IsMultiLane(m.xi[portIdx].ethMode)
             THEN [m EXCEPT !.tr = @ \o entry \o <<SerdesEv(portIdx, m.xi, TRUE)>>]
             ELSE [m EXCEPT !.tr = @ \o entry \o laneEv(0) \o laneEv(1)
                                      \o laneEv(2) \o laneEv(3)]
        ELSE [m EXCEPT !.tr = @ \o entry]

(* A faulty variant: a failed first configuration keeps the whole budget,  *)
(* so that the retry sweeps make MAX_CONFIG_RETRY further attempts         *)
UpdateXcvrConfigFullBudget(m, portIdx, retries, io) ==
    LET portCfg == cfg.ports[portIdx]
        m1 == [m EXCEPT !.xi[portIdx].configRetries = retries]
        c  == ConfigureSfppXcvr(m1, portCfg.port, portIdx, io)
    IN  IF portCfg.intfType = "SFPP"
        THEN [xi |-> [c.xi EXCEPT ![portIdx].configRetries =
                          IF c.status # FM_OK THEN retries ELSE 0],
              tr |-> c.tr]
        ELSE m

(* UpdateXcvrConfig(sw, portIndex, retries) *)
UpdateXcvrConfig(m, portIdx, retries, io) ==
    LET portCfg == cfg.ports[portIdx]
        m1 == [m EXCEPT !.xi[portIdx].configRetries = retries - 1]
        c  == ConfigureSfppXcvr(m1, portCfg.port, portIdx, io)
    IN  IF portCfg.intfType = "SFPP"
        THEN [xi |-> [c.xi EXCEPT ![portIdx].configRetries =
                          IF c.status # FM_OK THEN retries - 1 ELSE 0],
              tr |-> c.tr]
        ELSE m

(* XcvrReadAndValidateEeprom(sw, portIndex, retry).  A failed read leaves  *)
(* the cache as it was.  The result adds the status returned.              *)
XcvrReadAndValidateEeprom(m, portIdx, retry, rd) ==
    LET port == cfg.ports[portIdx].port
        call == Ev("XcvrEepromRead", port, IF retry THEN "retry" ELSE "first",
                   m.xi[portIdx].eepromReadRetries,
                   IF rd = FM_FAIL THEN FM_FAIL ELSE FM_OK)
        tr1  == m.tr \o <<call>>
        valid == EepromIsBaseCsumValid(rd)
    IN  IF rd # FM_FAIL
        THEN [xi |-> [m.xi EXCEPT ![portIdx].eeprom = rd,
                                  ![portIdx].eepromReadRetries = 0,
                                  ![portIdx].eepromBaseValid = valid,
                                  ![portIdx].eepromExtValid = EepromIsExtCsumValid(rd),
                                  ![portIdx].type =
                                      IF valid THEN EepromGetType(rd) ELSE "UNKNOWN",
                                  ![portIdx].cableLength =
                                      IF valid THEN EepromGetLen(rd) ELSE 0],
              tr |-> tr1, status |-> FM_OK]
        ELSE IF ~retry
        THEN [xi |-> [m.xi EXCEPT ![portIdx].eepromReadRetries = MAX_EEPROM_READ_RETRY,
                                  ![portIdx].type = "UNKNOWN"],
              tr |-> tr1, status |-> FM_FAIL]
        ELSE [xi |-> m.xi, tr |-> tr1, status |-> FM_FAIL]

----------------------------------------------------------------------------
(* XcvrUpdateState: the body of the loop over the hardware-resource list   *)

(* A valid change of one bit between the cached and the reported state *)
BitChanged(bit, valid, oldState, state) ==
    bit \in valid /\ ((bit \in oldState) # (bit \in state))

(* The record updates on a PRESENT change.  xcvrInfo is the base of the    *)
(* array, so xcvrInfo->eeprom is the cache of port index 0.                *)
PresenceChangeReset(xi, portIdx, present) ==
    [xi EXCEPT ![portIdx].type = "NOT_PRESENT",
               ![portIdx].cableLength = 0,
               ![portIdx].present = present,
               ![portIdx].eepromBaseValid = FALSE,
               ![portIdx].eepromExtValid = FALSE,
               ![portIdx].eepromReadRetries = 0,
               ![0].eeprom = "FF"]

(* The record updates on an ENABLE change, through the base pointer too *)
EnableChangeReset(xi, portIdx) ==
    [xi EXCEPT ![0].configRetries = 0,
               ![0].anEnabled = FALSE]

(* xcvrSignals of the upward notification *)
XcvrSignals(intfType, state) ==
    (IF "PRESENT" \in state THEN {"MODPRES"} ELSE {})
    \cup (IF intfType = "SFPP" /\ "RXLOS" \in state THEN {"RXLOS"} ELSE {})
    \cup (IF intfType = "SFPP" /\ "TXFAULT" \in state THEN {"TXFAULT"} ELSE {})

(* A faulty variant: no notification is made *)
NotifyUpNone(xi, portIdx, state) == <<>>

(* A faulty variant: every defined lane-port of a QSFP cage is notified,   *)
(* whatever its Ethernet mode                                              *)
NotifyUpEveryLane(xi, portIdx, state) ==
    LET portCfg == cfg.ports[portIdx]
        sig     == XcvrSignals(portCfg.intfType, state)
        lanePortIdx(lane) == cfg.epls[portCfg.epl].laneToPortIdx[lane]
        laneApi(lane) ==
            IF lanePortIdx(lane) = FM_PLAT_UNDEFINED THEN <<>>
            ELSE <<Ev("NotifyXcvrChange", cfg.ports[lanePortIdx(lane)].port,
                      0, sig, FM_OK)>>
    IN  laneApi(0) \o laneApi(1) \o laneApi(2) \o laneApi(3)
        \o <<Ev("EventSendPortXcvrState", portCfg.port, "NA", sig, FM_OK)>>

(* The notifications of one port: if (notify || force) { ... } *)
NotifyUp(xi, portIdx, state) ==
    LET portCfg == cfg.ports[portIdx]
        port    == portCfg.port
        sig     == XcvrSignals(portCfg.intfType, state)
        lanePortIdx(lane) == cfg.epls[portCfg.epl].laneToPortIdx[lane]
        laneApi(lane) ==
            IF lanePortIdx(lane) = FM_PLAT_UNDEFINED THEN <<>>
            ELSE IF xi[lanePortIdx(lane)].ethMode # "DISABLED"
            THEN <<Ev("NotifyXcvrChange", cfg.ports[lanePortIdx(lane)].port,
                      0, sig, FM_OK)>>
            ELSE <<>>
        allApi(lane) ==
            IF xi[portIdx].ethMode # "DISABLED"
            THEN <<Ev("NotifyXcvrChange", port, lane, sig, FM_OK)>>
            ELSE <<>>
    IN  IF portCfg.intfType = "SFPP"
        THEN (IF xi[portIdx].ethMode # "DISABLED"
              THEN <<Ev("NotifyXcvrChange", port, 0, sig, FM_OK)>> ELSE <<>>)
             \o <<Ev("EventSendPortXcvrState", port, "NA", sig, FM_OK)>>
        ELSE IF portCfg.intfType = "QSFP_LANE0"
        THEN IF ~IsMultiLane(xi[portIdx].ethMode)
             THEN laneApi(0) \o laneApi(1) \o laneApi(2) \o laneApi(3)
                  \o <<Ev("EventSendPortXcvrState", port, "NA", sig, FM_OK)>>
             ELSE allApi(0) \o allApi(1) \o allApi(2) \o allApi(3)
                  \o <<Ev("EventSendPortXcvrState", port, "ALL", sig, FM_OK)>>
        ELSE <<>>

(* if (notify && present && (xcvrState & ENABLE)): read the EEPROM once    *)
(* and, when the read succeeds, update the SerDes and configure the module *)
ReadAndConfigure(m, portIdx, rd, io) ==
    LET r == XcvrReadAndValidateEeprom(m, portIdx, FALSE, rd)
    IN  IF r.status = FM_OK
        THEN UpdateXcvrConfig(UpdateSerdesSettings([xi |-> r.xi, tr |-> r.tr], portIdx),
                              portIdx, MAX_CONFIG_RETRY, io)
        ELSE [xi |-> r.xi, tr |-> r.tr]

(* A faulty variant: the EEPROM is read after the RXLOS and TXFAULT tests,  *)
(* on any change that marks the port for notification                      *)
EntryReadsOnAnyNotify(xi, portIdx, valid, state) ==
    LET oldState == xi[portIdx].modState
    IN  /\ oldState # state
        /\ \E bit \in {"PRESENT", "ENABLE", "RXLOS", "TXFAULT"} :
               BitChanged(bit, valid, oldState, state)
        /\ "PRESENT" \in state
        /\ "ENABLE" \in state

(* Whether the entry reads the EEPROM: a valid PRESENT or ENABLE change to *)
(* a state with the module present and enabled.                            *)
EntryReads(xi, portIdx, valid, state) ==
    LET oldState == xi[portIdx].modState
    IN  /\ oldState # state
        /\ (BitChanged("PRESENT", valid, oldState, state)
            \/ BitChanged("ENABLE", valid, oldState, state))
        /\ "PRESENT" \in state
        /\ "ENABLE" \in state

(* One iteration of the loop: entry portIdx of the list, for which the     *)
(* library reported (valid, state).  rd and io are the outcomes of the     *)
(* EEPROM read and of the module configuration, should they happen.        *)
UpdateStateEntry(xi, portIdx, frc, valid, state, rd, io) ==
    LET port     == cfg.ports[portIdx].port
        oldState == xi[portIdx].modState
        differs  == oldState # state
        chg(bit) == differs /\ BitChanged(bit, valid, oldState, state)
        log(bit, op) == IF chg(bit) THEN <<Ev(op, port, bit \in state, 0, FM_OK)>>
                        ELSE <<>>
        m1 == [xi |-> IF differs THEN [xi EXCEPT ![portIdx].modState = state] ELSE xi,
               tr |-> <<>>]
        m2 == IF chg("PRESENT")
              THEN [xi |-> PresenceChangeReset(m1.xi, portIdx, "PRESENT" \in state),
                    tr |-> m1.tr \o log("PRESENT", "PresenceChanged")]
              ELSE m1
        m3 == IF chg("ENABLE")
              THEN [xi |-> EnableChangeReset(m2.xi, portIdx),
                    tr |-> m2.tr \o log("ENABLE", "EnableChanged")]
              ELSE m2
        m4 == IF EntryReads(xi, portIdx, valid, state)
              THEN ReadAndConfigure(m3, portIdx, rd, io)
              ELSE m3
        m5 == [m4 EXCEPT !.tr = @ \o log("RXLOS", "RxlosChanged")
                                  \o log("TXFAULT", "TxfaultChanged")
                                  \o log("INTR", "IntrChanged")]
        notify == chg("PRESENT") \/ chg("ENABLE") \/ chg("RXLOS") \/ chg("TXFAULT")
    IN  IF ~IsXcvrIntf(portIdx) THEN [xi |-> xi, tr |-> <<>>]
        ELSE IF notify \/ frc
        THEN [m5 EXCEPT !.tr = @ \o NotifyUp(m5.xi, portIdx, state)]
        ELSE m5

(* The outcomes that matter for an entry *)
ReadDomain(xi, portIdx, valid, state) ==
    IF IsXcvrIntf(portIdx) /\ EntryReads(xi, portIdx, valid, state)
    THEN ReadOutcomes(portIdx) ELSE {FM_FAIL}

(* The I/O outcomes that matter for a module: a dual-rate module is       *)
(* written to, a 1000BASE-T module is configured through the PHY driver    *)
(* according to the port attribute.                                        *)
IoOutcomesFor(portIdx, eeprom) ==
    { io \in IoOutcomes(portIdx) :
        /\ io.failAt \in {"w110", "w118"} => XcvrIs10G1G(eeprom)
        /\ io.failAt = "phy" => XcvrIs1000BaseT(eeprom)
        /\ io.autoneg # "NONE" => XcvrIs1000BaseT(eeprom) }

IoDomain(portIdx, rd) ==
    IF /\ cfg.ports[portIdx].intfType = "SFPP"
       /\ rd # FM_FAIL
       /\ EepromIsBaseCsumValid(rd)
    THEN IoOutcomesFor(portIdx, rd) ELSE {NoIo}

----------------------------------------------------------------------------
(* fmPlatformMgmtXcvrInitialize *)

(* The record as the first loop of fmPlatformMgmtXcvrInitialize leaves it *)
InitialRecord(portIdx) ==
    [ethMode           |-> cfg.ports[portIdx].ethMode,
     modState          |-> {},
     present           |-> FALSE,
     anEnabled         |-> FALSE,
     type              |-> "NOT_PRESENT",
     cableLength       |-> 0,
     eepromBaseValid   |-> FALSE,
     eepromExtValid    |-> FALSE,
     eepromReadRetries |-> 0,
     configRetries     |-> 0,
     eeprom            |-> "FF"]

(* The record as fmPlatformMgmtInit allocates it: all bytes zero *)
ZeroRecord ==
    [ethMode           |-> "DISABLED",
     modState          |-> {},
     present           |-> FALSE,
     anEnabled         |-> FALSE,
     type              |-> "UNKNOWN",
     cableLength       |-> 0,
     eepromBaseValid   |-> FALSE,
     eepromExtValid    |-> FALSE,
     eepromReadRetries |-> 0,
     configRetries     |-> 0,
     eeprom            |-> "00"]

(* One iteration of the second loop of fmPlatformMgmtXcvrInitialize *)
InitializeEntry(xi, portIdx, valid, state, rd) ==
    LET xi1 == [xi EXCEPT ![portIdx].modState = state]
        xi2 == IF "PRESENT" \in valid /\ "PRESENT" \in state
               THEN [xi1 EXCEPT ![portIdx].present = TRUE]
               ELSE xi1
        m   == [xi |-> xi2, tr |-> <<>>]
    IN  IF "ENABLE" \in valid /\ "ENABLE" \in state /\ xi2[portIdx].present
        THEN LET r == XcvrReadAndValidateEeprom(m, portIdx, FALSE, rd)
             IN  [xi |-> r.xi, tr |-> r.tr]
        ELSE m

InitializeReads(valid, state) ==
    {"PRESENT", "ENABLE"} \subseteq (valid \cap state)

----------------------------------------------------------------------------
(* The retry sweeps of the management thread *)

(* A faulty variant: the retry counter is not decremented *)
RetryEepromReadPortKeepCount(m, portIdx, rd) ==
    IF ~IsXcvrIntf(portIdx) THEN m
    ELSE IF m.xi[portIdx].eepromReadRetries > 0
    THEN LET r == XcvrReadAndValidateEeprom(m, portIdx, TRUE, rd)
         IN  IF r.status # FM_OK THEN [xi |-> r.xi, tr |-> r.tr]
             ELSE UpdateSerdesSettings(
                      [xi |-> [r.xi EXCEPT ![portIdx].eepromReadRetries = 0],
                       tr |-> r.tr], portIdx)
    ELSE m

(* The body of the loop of XcvrRetryEepromRead *)
RetryEepromReadPort(m, portIdx, rd) ==
    IF ~IsXcvrIntf(portIdx) THEN m
    ELSE IF m.xi[portIdx].eepromReadRetries > 0
    THEN LET m1 == [m EXCEPT !.xi[portIdx].eepromReadRetries = @ - 1]
             r  == XcvrReadAndValidateEeprom(m1, portIdx, TRUE, rd)
         IN  IF r.status # FM_OK THEN [xi |-> r.xi, tr |-> r.tr]
             ELSE UpdateSerdesSettings(
                      [xi |-> [r.xi EXCEPT ![portIdx].eepromReadRetries = 0],
                       tr |-> r.tr], portIdx)
    ELSE m

(* A faulty variant: the configuration retries are counted down whether   *)
(* or not the EEPROM is valid                                              *)
RetryConfigPortUnguarded(m, portIdx, io) ==
    IF IsXcvrIntf(portIdx) /\ m.xi[portIdx].configRetries > 0
    THEN [m EXCEPT !.xi[portIdx].configRetries = @ - 1]
    ELSE m

(* The body of the loop of XcvrRetryConfig *)
RetryConfigPort(m, portIdx, io) ==
    IF ~IsXcvrIntf(portIdx) THEN m
    ELSE IF m.xi[portIdx].eepromBaseValid /\ m.xi[portIdx].configRetries > 0
    THEN LET m1 == [m EXCEPT !.xi[portIdx].configRetries = @ - 1]
         IN  IF cfg.ports[portIdx].intfType = "SFPP"
             THEN LET c == ConfigureSfppXcvr(m1, cfg.ports[portIdx].port, portIdx, io)
                  IN  IF c.status = FM_OK
                      THEN [xi |-> [c.xi EXCEPT ![portIdx].configRetries = 0],
                            tr |-> c.tr]
                      ELSE [xi |-> c.xi, tr |-> c.tr]
             ELSE m1
    ELSE m

(* for (portIdx = 0 ; portIdx < FM_PLAT_NUM_PORT(sw) ; portIdx++) *)
RECURSIVE RetryEepromReadFrom(_, _, _)
RetryEepromReadFrom(m, portIdx, rds) ==
    IF portIdx >= NumPort THEN m
    ELSE RetryEepromReadFrom(RetryEepromReadPort(m, portIdx, rds[portIdx]),
                             portIdx + 1, rds)

RECURSIVE RetryConfigFrom(_, _, _)
RetryConfigFrom(m, portIdx, ios) ==
    IF portIdx >= NumPort THEN m
    ELSE RetryConfigFrom(RetryConfigPort(m, portIdx, ios[portIdx]),
                         portIdx + 1, ios)

(* Per-port outcomes of a sweep: one choice for each port whose outcome    *)
(* matters, a fixed value for the others.                                  *)
PerPort(d0, d1, d2, d3) ==
    { [p \in PortIdxs |-> CASE p = 0 -> a [] p = 1 -> b [] p = 2 -> c [] OTHER -> d]
      : a \in d0, b \in d1, c \in d2, d \in d3 }

RetryReadDomain(portIdx) ==
    IF IsXcvrIntf(portIdx) /\ xcvrInfo[portIdx].eepromReadRetries > 0
    THEN ReadOutcomes(portIdx) ELSE {FM_FAIL}

RetryConfigDomain(portIdx) ==
    IF /\ cfg.ports[portIdx].intfType = "SFPP"
       /\ xcvrInfo[portIdx].eepromBaseValid
       /\ xcvrInfo[portIdx].configRetries > 0
       /\ ConfigureDoesIo(xcvrInfo[portIdx])
    THEN IoOutcomesFor(portIdx, xcvrInfo[portIdx].eeprom) ELSE {NoIo}

----------------------------------------------------------------------------
(* Actions *)

Step(op, portIdx, frc) == [op |-> op, portIdx |-> portIdx, force |-> frc]

(* No ConfigureSfppXcvr call of XcvrRetryConfig is in progress *)
NoCall == [ethMode |-> "DISABLED", status |-> FM_OK]

----------------------------------------------------------------------------
(* Autonegotiation: fm10000_api_an.c *)

FM_SMTYPE_UNSPECIFIED == "FM_SMTYPE_UNSPECIFIED"

FM10000_CLAUSE73_AN_STATE_MACHINE == "FM10000_CLAUSE73_AN_STATE_MACHINE"

FM10000_CLAUSE37_AN_STATE_MACHINE == "FM10000_CLAUSE37_AN_STATE_MACHINE"

FM10000_AN73_INT_MASK == "FM10000_AN73_INT_MASK"

FM10000_AN37_INT_MASK == "FM10000_AN37_INT_MASK"

(* A faulty variant: TransmitDisable is tested first, as in the debug      *)
(* message of fm10000AnEventHandler                                        *)
An73EventsLogOrder ==
    << <<"An73TransmitDisable",     "FM10000_AN_EVENT_TRANSMIT_DISABLE_IND">>,
       <<"An73AbilityDetect",       "FM10000_AN_EVENT_ABILITY_DETECT_IND">>,
       <<"An73AcknowledgeDetect",   "FM10000_AN_EVENT_ACK_DETECT_IND">>,
       <<"An73CompleteAcknowledge", "FM10000_AN_EVENT_COMPLETE_ACK_IND">>,
       <<"An73NextPageWait",        "FM10000_AN_EVENT_NEXT_PAGE_WAIT_IND">>,
       <<"An73AnGoodCheck",         "FM10000_AN_EVENT_GOOD_CHECK_IND">>,
       <<"An73AnGood",              "FM10000_AN_EVENT_GOOD_IND">> >>

(* The bits of FM10000_AN_IP that NotifyClause73Events tests, in the order *)
(* of its if statements, each with the event it sends                      *)
An73Events ==
    << <<"An73AbilityDetect",       "FM10000_AN_EVENT_ABILITY_DETECT_IND">>,
       <<"An73AcknowledgeDetect",   "FM10000_AN_EVENT_ACK_DETECT_IND">>,
       <<"An73CompleteAcknowledge", "FM10000_AN_EVENT_COMPLETE_ACK_IND">>,
       <<"An73NextPageWait",        "FM10000_AN_EVENT_NEXT_PAGE_WAIT_IND">>,
       <<"An73AnGoodCheck",         "FM10000_AN_EVENT_GOOD_CHECK_IND">>,
       <<"An73AnGood",              "FM10000_AN_EVENT_GOOD_IND">>,
       <<"An73TransmitDisable",     "FM10000_AN_EVENT_TRANSMIT_DISABLE_IND">> >>

(* A faulty variant: the NextPageWait bit is sent as a next-page event *)
An37EventsNextPage ==
    << <<"An37AnEnable",            "FM10000_AN_EVENT_ENABLE_IND">>,
       <<"An37AnRestart",           "FM10000_AN_EVENT_RESTART_IND">>,
       <<"An37AnDisableLinkOk",     "FM10000_AN_EVENT_DISABLE_LINK_OK_IND">>,
       <<"An37AbilityDetect",       "FM10000_AN_EVENT_ABILITY_DETECT_IND">>,
       <<"An37CompleteAcknowledge", "FM10000_AN_EVENT_COMPLETE_ACK_IND">>,
       <<"An37NextPageWait",        "FM10000_AN_EVENT_NEXT_PAGE_WAIT_IND">>,
       <<"An37IdleDetect",          "FM10000_AN_EVENT_IDLE_DETECT_IND">>,
       <<"An37LinkOk",              "FM10000_AN_EVENT_LINK_OK_IND">> >>

(* The same for NotifyClause37Events *)
An37Events ==
    << <<"An37AnEnable",            "FM10000_AN_EVENT_ENABLE_IND">>,
       <<"An37AnRestart",           "FM10000_AN_EVENT_RESTART_IND">>,
       <<"An37AnDisableLinkOk",     "FM10000_AN_EVENT_DISABLE_LINK_OK_IND">>,
       <<"An37AbilityDetect",       "FM10000_AN_EVENT_ABILITY_DETECT_IND">>,
       <<"An37CompleteAcknowledge", "FM10000_AN_EVENT_COMPLETE_ACK_IND">>,
       <<"An37NextPageWait",        "FM10000_AN_EVENT_GOOD_CHECK_IND">>,
       <<"An37IdleDetect",          "FM10000_AN_EVENT_IDLE_DETECT_IND">>,
       <<"An37LinkOk",              "FM10000_AN_EVENT_LINK_OK_IND">> >>

(* Bits of FM10000_AN_IP that no event is sent for *)
AnOtherBits == {"An73MrPageRx", "An73ReceiveIdle", "An37AcknowledgeDetect", "An37MrPageRx"}

(* fmNotifyStateMachineEvent(portExt->anSmHandle, &eventInfo, ...) *)
AnIndEv(port, smType, eventId, status) ==
    Ev("fmNotifyStateMachineEvent", port, eventId, <<"anSmHandle", smType>>, status)

(* The if statements of NotifyClause73Events / NotifyClause37Events from   *)
(* the i-th on.  tr holds the events sent so far; the failAt-th delivery   *)
(* returns an error (FM_LOG_ABORT_ON_ERR_V2 leaves the function).          *)
RECURSIVE NotifyEventsFrom(_, _, _, _, _, _, _)
NotifyEventsFrom(events, i, smType, port, anIp, failAt, tr) ==
    IF i > Len(events) THEN [tr |-> tr, status |-> FM_OK]
    ELSE IF events[i][1] \in anIp
    THEN LET status == IF failAt = Len(tr) + 1 THEN FM_FAIL ELSE FM_OK
             tr1 == Append(tr, AnIndEv(port, smType, events[i][2], status))
         IN  IF status # FM_OK THEN [tr |-> tr1, status |-> status]
             ELSE NotifyEventsFrom(events, i + 1, smType, port, anIp, failAt, tr1)
    ELSE NotifyEventsFrom(events, i + 1, smType, port, anIp, failAt, tr)

NotifyClause73Events(port, anIp, failAt) ==
    NotifyEventsFrom(An73Events, 1, FM10000_CLAUSE73_AN_STATE_MACHINE,
                     port, anIp, failAt, <<>>)

NotifyClause37Events(port, anIp, failAt) ==
    NotifyEventsFrom(An37Events, 1, FM10000_CLAUSE37_AN_STATE_MACHINE,
                     port, anIp, failAt, <<>>)

(* The ports of the switch: port 1 is a physical port on the EPL ring,     *)
(* port 2 a port on another ring (no autonegotiation)                      *)
AnPorts == {1, 2}

IsEthernetPort(port) == port = 1

(* The lanes of the switch.  EPL 0 exists: its lane 0 belongs to port 1,   *)
(* its lane 1 has no parent port and its lane 2 no lane extension.  EPL 9  *)
(* does not exist: fm10000MapEplLaneToSerdes fails.                        *)
AnLanes == {<<0, 0>>, <<0, 1>>, <<0, 2>>, <<9, 0>>}

MapEplLaneToSerdes(epl, lane) ==
    IF epl = 0 THEN [status |-> FM_OK, serDes |-> lane]
    ELSE [status |-> FM_FAIL, serDes |-> -1]

(* GET_LANE_EXT(sw, serDes): whether the lane exists, and the number of    *)
(* the parent port (-1 for a NULL parentPortExt)                           *)
LaneExt(serDes) ==
    CASE serDes = 0 -> [exists |-> TRUE, parentPort |-> 1]
      [] serDes = 1 -> [exists |-> TRUE, parentPort |-> -1]
      [] OTHER      -> [exists |-> FALSE, parentPort |-> -1]

(* switchPtr->MaskUINT32(sw, FM10000_AN_IM(epl, lane), anIp, FALSE) *)
MaskEv(epl, lane, anIp) ==
    Ev("MaskUINT32", -1, <<"FM10000_AN_IM", epl, lane>>,
       [mask |-> anIp, on |-> FALSE], FM_OK)

(* A faulty variant: the mask is re-armed only when no step failed *)
AnEventHandlerExit(status, epl, lane, anIp) ==
    IF status = FM_OK THEN <<MaskEv(epl, lane, anIp)>> ELSE <<>>

(* The ABORT label of fm10000AnEventHandler *)
AnEventHandlerAbort(status, epl, lane, anIp) == <<MaskEv(epl, lane, anIp)>>

(* The port fm10000AnEventHandler finds for the lane, -1 if none *)
AnEventHandlerPort(epl, lane) ==
    LET m == MapEplLaneToSerdes(epl, lane) IN
    IF m.status # FM_OK THEN -1
    ELSE IF ~LaneExt(m.serDes).exists THEN -1
    ELSE LaneExt(m.serDes).parentPort

(* fm10000AnEventHandler(sw, epl, lane, anIp): the calls it makes *)
AnEventHandler(pe, epl, lane, anIp, failAt) ==
    LET m    == MapEplLaneToSerdes(epl, lane)
        port == AnEventHandlerPort(epl, lane)
        n    == IF m.status # FM_OK THEN [tr |-> <<>>, status |-> m.status]
                ELSE IF port < 0 THEN [tr |-> <<>>, status |-> FM_OK]
                ELSE IF pe[port].anSmType = FM10000_CLAUSE73_AN_STATE_MACHINE
                THEN NotifyClause73Events(port, anIp, failAt)
                ELSE IF pe[port].anSmType = FM10000_CLAUSE37_AN_STATE_MACHINE
                THEN NotifyClause37Events(port, anIp, failAt)
                ELSE [tr |-> <<>>, status |-> FM_OK]
    IN  n.tr \o AnEventHandlerAbort(n.status, epl, lane, anIp)

(* A faulty variant: any ethernet port is ready *)
IsPortAutonegReadyAlways(pe, port, ethMode, anMode) ==
    IF IsEthernetPort(port)
    THEN [status |-> FM_OK,
          ready  |-> anMode \in {"CLAUSE_73", "CLAUSE_37", "SGMII"},
          smType |-> IF anMode \in {"CLAUSE_37", "SGMII"}
                     THEN FM10000_CLAUSE37_AN_STATE_MACHINE
                     ELSE IF anMode = "CLAUSE_73"
                     THEN FM10000_CLAUSE73_AN_STATE_MACHINE
                     ELSE pe[port].anSmType]
    ELSE [status |-> "FM_ERR_INVALID_PORT", ready |-> FALSE,
          smType |-> FM_SMTYPE_UNSPECIFIED]

(* fm10000IsPortAutonegReady(sw, port, ethMode, anMode, &ready, &smType) *)
IsPortAutonegReady(pe, port, ethMode, anMode) ==
    IF IsEthernetPort(port)
    THEN [status |-> FM_OK,
          ready  |-> \/ anMode = "CLAUSE_73" /\ ethMode = "AN_73"
                     \/ anMode \in {"CLAUSE_37", "SGMII"}
                        /\ ethMode \in {"1000BASE_X", "SGMII"},
          smType |-> IF anMode \in {"CLAUSE_37", "SGMII"}
                     THEN FM10000_CLAUSE37_AN_STATE_MACHINE
                     ELSE IF anMode = "CLAUSE_73"
                     THEN FM10000_CLAUSE73_AN_STATE_MACHINE
                     ELSE pe[port].anSmType]
    ELSE [status |-> "FM_ERR_INVALID_PORT", ready |-> FALSE,
          smType |-> FM_SMTYPE_UNSPECIFIED]

(* An autonegotiation configuration: mode, base page, next pages *)
(* The OUI configured for the 25G next pages of a port *)
AutoNeg25GNxtPgOui == 8201

AnConfig(mode, basepage, nextPages) ==
    [autoNegMode |-> mode, autoNegBasePage |-> basepage,
     autoNegNextPages |-> nextPages,
     autoNeg25GNxtPgOui |-> AutoNeg25GNxtPgOui]

(* fm10000AnSendConfigEvent(sw, port, eventId, mode, basepage, nextPages): *)
(* the event goes to the port state machine (portExt->smHandle)            *)
AnSendConfigEvent(port, eventId, c, status) ==
    Ev("fmNotifyStateMachineEvent", port, eventId,
       <<"smHandle", c.autoNegMode, c.autoNegBasePage, c.autoNegNextPages>>, status)

(* The state machine behind portExt->anSmHandle *)
AnSmStopped == [running |-> FALSE, type |-> FM_SMTYPE_UNSPECIFIED, state |-> "NONE"]

AnSmStarted(smType) ==
    [running |-> TRUE, type |-> smType, state |-> "FM10000_AN_STATE_DISABLED"]

(* A faulty variant: the disable request carries the new configuration *)
AnDisableConfigNew(attr, c) == c

(* The configuration of the AN_DISABLE_REQ: portAttr->autoNegMode,         *)
(* portAttr->autoNegBasePage, portAttr->autoNegNextPages                   *)
AnDisableConfig(attr, c) == attr

(* A faulty variant: the mask is the Clause 73 one whatever the mode *)
AnInterruptMaskAlways73(anMode, mask) == FM10000_AN73_INT_MASK

(* change the AN interrupt mask *)
AnInterruptMaskFor(anMode, mask) ==
    IF anMode = "CLAUSE_73" THEN FM10000_AN73_INT_MASK
    ELSE IF anMode \in {"CLAUSE_37", "SGMII"} THEN FM10000_AN37_INT_MASK
    ELSE mask

(* fm10000AnRestartOnNewConfig(sw, port, ethMode, anMode, basepage,        *)
(* nextPages) on the port extensions pe and the port attributes pa; c is   *)
(* the new configuration and io the statuses that starting the state       *)
(* machine and sending AN_CONFIG_REQ return.  The result is the port       *)
(* extensions, the calls made and the status returned.                     *)
AnRestartOnNewConfig(pe, pa, port, ethMode, c, io) ==
    LET r == IsPortAutonegReady(pe, port, ethMode, c.autoNegMode) IN
    IF ~(r.status = FM_OK /\ r.ready)
    THEN [pe |-> pe, tr |-> <<>>, status |-> r.status]
    ELSE LET x      == pe[port]
             differ == r.smType # x.anSmType
             stop   == differ /\ x.anSmType # FM_SMTYPE_UNSPECIFIED
             tr1    == IF stop
                       THEN <<AnSendConfigEvent(port, "FM10000_PORT_EVENT_AN_DISABLE_REQ",
                                                AnDisableConfig(pa[port], c), FM_OK),
                              Ev("fmStopStateMachine", port, "anSmHandle", <<>>, FM_OK)>>
                       ELSE <<>>
             x1     == IF stop THEN [x EXCEPT !.anSm = AnSmStopped] ELSE x
             tr2    == IF differ
                       THEN tr1 \o <<Ev("fmStartStateMachine", port, r.smType,
                                        <<"FM10000_AN_STATE_DISABLED">>, io.start)>>
                       ELSE tr1
         IN  IF differ /\ io.start # FM_OK
             THEN [pe |-> [pe EXCEPT ![port] = x1], tr |-> tr2, status |-> io.start]
             ELSE LET x2 == IF differ
                            THEN [x1 EXCEPT !.anSm = AnSmStarted(r.smType),
                                            !.anSmType = r.smType]
                            ELSE x1
                      x3 == [x2 EXCEPT !.anInterruptMask =
                                          AnInterruptMaskFor(c.autoNegMode, @)]
                  IN  [pe |-> [pe EXCEPT ![port] = x3],
                       tr |-> tr2 \o <<AnSendConfigEvent(port,
                                           "FM10000_PORT_EVENT_AN_CONFIG_REQ",
                                           c, io.config)>>,
                       status |-> io.config]

(* ---- Link inhibit timers (fm10000An73SetLinkInhibitTimer[Kx]) ---- *)

FM_ERR_INVALID_ARGUMENT == "FM_ERR_INVALID_ARGUMENT"

(* Default link inhibit timers in milliseconds.  The values are set in a  *)
(* header that is not part of the source at hand.                         *)
LINK_INHIBIT_TIMER_MILLISEC == 500

LINK_INHIBIT_TIMER_MILLISEC_KX == 50

(* Largest timeout accepted by default, and with api.an.timerAllowOutSpec *)
FM10000_AN73_LINK_FAIL_INHIBIT_TIMEOUT_MAX == 511

FM10000_AN73_LINK_FAIL_INHIBIT_TIMEOUT_DEBUG == 1023

(* The timers of a port before any of them is set *)
DefaultLinkInhbTimers ==
    [autoNegLinkInhbTimer |-> LINK_INHIBIT_TIMER_MILLISEC,
     autoNegLinkInhbTimerKx |-> LINK_INHIBIT_TIMER_MILLISEC_KX]

(* A faulty variant: the largest timeout is refused too *)
LinkInhibitTimeoutExclusive(timeout, anTimerAllowOutSpec, default) ==
    LET linkTimeoutMax ==
            IF anTimerAllowOutSpec
            THEN FM10000_AN73_LINK_FAIL_INHIBIT_TIMEOUT_DEBUG
            ELSE FM10000_AN73_LINK_FAIL_INHIBIT_TIMEOUT_MAX
    IN  IF timeout = 0
        THEN [store |-> TRUE, timer |-> default, status |-> FM_OK]
        ELSE IF timeout >= linkTimeoutMax \/ timeout < 1
        THEN [store |-> FALSE, timer |-> 0,
              status |-> FM_ERR_INVALID_ARGUMENT]
        ELSE [store |-> TRUE, timer |-> timeout, status |-> FM_OK]

(* The body the two setters share: whether a timer is stored, its value   *)
(* and the status.  FM_LOG_EXIT_V2 and FM_LOG_EXIT_ON_ERR_V2 return.      *)
LinkInhibitTimeout(timeout, anTimerAllowOutSpec, default) ==
    LET linkTimeoutMax ==
            IF anTimerAllowOutSpec
            THEN FM10000_AN73_LINK_FAIL_INHIBIT_TIMEOUT_DEBUG
            ELSE FM10000_AN73_LINK_FAIL_INHIBIT_TIMEOUT_MAX
    IN  IF timeout = 0
        THEN [store |-> TRUE, timer |-> default, status |-> FM_OK]
        ELSE IF timeout > linkTimeoutMax \/ timeout < 1
        THEN [store |-> FALSE, timer |-> 0,
              status |-> FM_ERR_INVALID_ARGUMENT]
        ELSE [store |-> TRUE, timer |-> timeout, status |-> FM_OK]

(* fm10000An73SetLinkInhibitTimer on the timers ae of a port *)
An73SetLinkInhibitTimer(ae, timeout, anTimerAllowOutSpec) ==
    LET r == LinkInhibitTimeout(timeout, anTimerAllowOutSpec,
                                LINK_INHIBIT_TIMER_MILLISEC)
    IN  [ae |-> IF r.store
                THEN [ae EXCEPT !.autoNegLinkInhbTimer = r.timer] ELSE ae,
         status |-> r.status]

(* fm10000An73SetLinkInhibitTimerKx on the timers ae of a port *)
An73SetLinkInhibitTimerKx(ae, timeout, anTimerAllowOutSpec) ==
    LET r == LinkInhibitTimeout(timeout, anTimerAllowOutSpec,
                                LINK_INHIBIT_TIMER_MILLISEC_KX)
    IN  [ae |-> IF r.store
                THEN [ae EXCEPT !.autoNegLinkInhbTimerKx = r.timer] ELSE ae,
         status |-> r.status]

(* The port extension and the port attributes before any autonegotiation  *)
(* request                                                                 *)
AnInit ==
    /\ portExt = [p \in AnPorts |->
                    [anSmType |-> FM_SMTYPE_UNSPECIFIED,
                     anInterruptMask |-> "0",
                     anSm |-> AnSmStopped]]
    /\ portAttr = [p \in AnPorts |-> AnConfig("NONE", 0, <<>>)]
    /\ portAttrExt = [p \in AnPorts |-> DefaultLinkInhbTimers]

(* ---- Next pages (fm10000AnAddNextPage) ---- *)

FM_ERR_NO_MEM == "FM_ERR_NO_MEM"

FM_ERR_NO_FREE_RESOURCES == "FM_ERR_NO_FREE_RESOURCES"

(* Capacity of the next-page array of a port.  The value is set in a      *)
(* header that is not part of the source at hand; a small capacity is     *)
(* used here.                                                             *)
MAX_NUM_NEXTPAGES == 3

(* Position of the NP (next page) bit in a next-page word *)
FM10000_AN_73_NEXT_PAGE_TX_b_NP == 15

(* 2^n *)
RECURSIVE Pow2(_)
Pow2(n) == IF n = 0 THEN 1 ELSE 2 * Pow2(n - 1)

(* A 64-bit word is the set of the positions of its bits that are 1.      *)
(* Bit b of the word w                                                     *)
BitOf(w, b) == IF b \in w THEN 1 ELSE 0

(* w | (1 << b) *)
OrBit(w, b) == w \cup {b}

(* A null nextPages pointer *)
NullPages == <<"NULL">>

(* An element of a fresh array that was never written *)
Unwritten == "unwritten"

(* fmAlloc(sizeof(fm_uint64) * MAX_NUM_NEXTPAGES): the array is not        *)
(* initialized                                                             *)
AllocPages == [i \in 1..MAX_NUM_NEXTPAGES |-> Unwritten]

(* The fm_anNextPages of a port that has no next pages *)
NoNextPages == [numPages |-> 0, nextPages |-> NullPages]

(* A faulty variant: the NP bit is set in the page just stored *)
AnAddNextPageMarksNew(np, nextPage, allocOk) ==
    LET fresh == np.nextPages = NullPages
        a == IF fresh THEN [numPages |-> 0, nextPages |-> AllocPages] ELSE np
        curNumPages == a.numPages
    IN  IF fresh /\ ~allocOk
        THEN [np |-> [numPages |-> 0, nextPages |-> NullPages],
              status |-> FM_ERR_NO_MEM]
        ELSE IF curNumPages < MAX_NUM_NEXTPAGES
        THEN [np |-> [numPages |-> curNumPages + 1,
                      nextPages |-> [a.nextPages EXCEPT ![curNumPages + 1] =
                          OrBit(nextPage, FM10000_AN_73_NEXT_PAGE_TX_b_NP)]],
              status |-> FM_OK]
        ELSE [np |-> a, status |-> FM_ERR_NO_FREE_RESOURCES]

(* fm10000AnAddNextPage on the next pages np of a port: allocOk is the     *)
(* outcome of fmAlloc when the array is allocated by this call.  The      *)
(* array is indexed from 1 here, so nextPages[curNumPages] of the code is *)
(* nextPages[curNumPages + 1].                                            *)
AnAddNextPage(np, nextPage, allocOk) ==
    LET fresh == np.nextPages = NullPages
        a == IF fresh THEN [numPages |-> 0, nextPages |-> AllocPages] ELSE np
        curNumPages == a.numPages
        stored == [a.nextPages EXCEPT ![curNumPages + 1] = nextPage]
    IN  IF fresh /\ ~allocOk
        THEN [np |-> [numPages |-> 0, nextPages |-> NullPages],
              status |-> FM_ERR_NO_MEM]
        ELSE IF curNumPages < MAX_NUM_NEXTPAGES
        THEN [np |-> [numPages |-> curNumPages + 1,
                      nextPages |->
                          IF curNumPages > 0
                          THEN [stored EXCEPT ![curNumPages] =
                                   OrBit(stored[curNumPages],
                                         FM10000_AN_73_NEXT_PAGE_TX_b_NP)]
                          ELSE stored],
              status |-> FM_OK]
        ELSE [np |-> a, status |-> FM_ERR_NO_FREE_RESOURCES]

(* ---- Base page validation (fm10000AnValidateBasePage) ---- *)

FM_ERR_UNSUPPORTED == "FM_ERR_UNSUPPORTED"

(* The bits of the technology ability field A of a Clause 73 base page    *)
(* (a bit mask, modelled as a set of bit names)                           *)
AN73Abilities ==
    {"1000BASE_KX", "10GBASE_KX4", "10GBASE_KR", "40GBASE_KR4", "40GBASE_CR4",
     "100GBASE_CR10", "100GBASE_KP4", "100GBASE_KR4", "100GBASE_CR4",
     "25GBASE_KR", "25GBASE_CR"}

(* FM10000_AN73_SUPPORTED_ABILITIES *)
FM10000_AN73_SUPPORTED_ABILITIES ==
    {"1000BASE_KX", "10GBASE_KR", "25GBASE_KR", "25GBASE_CR", "40GBASE_KR4",
     "40GBASE_CR4", "100GBASE_KR4", "100GBASE_CR4"}

(* FM10000_AN73_UNSUPPORTED_ABILITIES *)
FM10000_AN73_UNSUPPORTED_ABILITIES ==
    AN73Abilities \ FM10000_AN73_SUPPORTED_ABILITIES

(* FM_PORT_CAPABILITY_SPEED_*: the speeds a port declares (a bit mask,    *)
(* modelled as a set of bit names)                                        *)
PortSpeedCapabilities == {"1G", "10G", "25G", "40G", "100G"}

(* A base page: its technology ability field A and its other fields *)
BasePage(A, other) == [A |-> A, other |-> other]

(* The ability bits fm10000AnValidateBasePage checks against a speed of   *)
(* the port, in the order of the checks                                   *)
AnValidatedAbilities ==
    << <<"1000BASE_KX", "1G">>, <<"10GBASE_KR", "10G">>,
       <<"25GBASE_KR", "25G">>, <<"40GBASE_KR4", "40G">>,
       <<"40GBASE_CR4", "40G">>, <<"100GBASE_KR4", "100G">>,
       <<"100GBASE_CR4", "100G">> >>

(* A faulty variant: the unsupported bits are the ones written back *)
AnValidateBasePageKeepsUnsupported(mode, basepage, capabilities, modBasePage) ==
    IF mode = "CLAUSE_73"
    THEN LET ability == basepage.A \ FM10000_AN73_UNSUPPORTED_ABILITIES
         IN  IF basepage.A # {} /\
                \/ ability = {}
                \/ \E i \in DOMAIN AnValidatedAbilities :
                      /\ AnValidatedAbilities[i][1] \in ability
                      /\ AnValidatedAbilities[i][2] \notin capabilities
             THEN [status |-> FM_ERR_UNSUPPORTED, modBasePage |-> modBasePage]
             ELSE [status |-> FM_OK,
                   modBasePage |-> [modBasePage EXCEPT !.A =
                       basepage.A \cap FM10000_AN73_UNSUPPORTED_ABILITIES]]
    ELSE [status |-> FM_OK, modBasePage |-> modBasePage]

(* fm10000AnValidateBasePage: modBasePage is the caller's variable the    *)
(* result is written to; the result holds the status and that variable    *)
(* after the call                                                          *)
AnValidateBasePage(mode, basepage, capabilities, modBasePage) ==
    IF mode = "CLAUSE_73"
    THEN LET ability == basepage.A \ FM10000_AN73_UNSUPPORTED_ABILITIES
         IN  IF basepage.A # {} /\
                \/ ability = {}
                \/ \E i \in DOMAIN AnValidatedAbilities :
                      /\ AnValidatedAbilities[i][1] \in ability
                      /\ AnValidatedAbilities[i][2] \notin capabilities
             THEN [status |-> FM_ERR_UNSUPPORTED, modBasePage |-> modBasePage]
             ELSE [status |-> FM_OK,
                   modBasePage |-> [modBasePage EXCEPT !.A = ability]]
    ELSE [status |-> FM_OK, modBasePage |-> modBasePage]

(* ---- Highest common denominator (fm10000An73HcdToEthMode) ---- *)

(* The HCD codes that have a name *)
AN73_HCD_Codes ==
    {"AN73_HCD_KX", "AN73_HCD_KX4", "AN73_HCD_10_KR", "AN73_HCD_40_KR4",
     "AN73_HCD_40_CR4", "AN73_HCD_100_CR10", "AN73_HCD_100_KP4",
     "AN73_HCD_100_KR4", "AN73_HCD_100_CR4", "AN73_HCD_25_KR",
     "AN73_HCD_25_CR", "AN73_HCD_INCOMPATIBLE"}

(* A faulty variant: the 40G-CR4 case yields the KR4 mode *)
An73HcdToEthModeCopiedCase(hcd) ==
    CASE hcd = "AN73_HCD_KX" -> "1000BASE_KX"
      [] hcd = "AN73_HCD_10_KR" -> "10GBASE_KR"
      [] hcd = "AN73_HCD_40_CR4" -> "40GBASE_KR4"
      [] hcd = "AN73_HCD_40_KR4" -> "40GBASE_KR4"
      [] hcd = "AN73_HCD_100_KR4" -> "100GBASE_KR4"
      [] hcd = "AN73_HCD_100_CR4" -> "100GBASE_CR4"
      [] hcd = "AN73_HCD_25_KR" -> "25GBASE_KR"
      [] hcd = "AN73_HCD_25_CR" -> "25GBASE_CR"
      [] OTHER -> "DISABLED"

(* fm10000An73HcdToEthMode *)
An73HcdToEthMode(hcd) ==
    CASE hcd = "AN73_HCD_KX" -> "1000BASE_KX"
      [] hcd = "AN73_HCD_10_KR" -> "10GBASE_KR"
      [] hcd = "AN73_HCD_40_CR4" -> "40GBASE_CR4"
      [] hcd = "AN73_HCD_40_KR4" -> "40GBASE_KR4"
      [] hcd = "AN73_HCD_100_KR4" -> "100GBASE_KR4"
      [] hcd = "AN73_HCD_100_CR4" -> "100GBASE_CR4"
      [] hcd = "AN73_HCD_25_KR" -> "25GBASE_KR"
      [] hcd = "AN73_HCD_25_CR" -> "25GBASE_CR"
      [] OTHER -> "DISABLED"

(* ---- Timer scaling (fm10000AnGetTimeScale) ---- *)

(* The loop of fm10000AnGetTimeScale from the iteration of timeScale on:   *)
(* ts is the scale and timeout the count the earlier iterations left       *)
RECURSIVE AnGetTimeScaleFrom(_, _, _, _, _)
AnGetTimeScaleFrom(timeScale, ts, timeout, timeoutUsec, timeoutMax) ==
    IF timeScale <= 7
    THEN LET t == timeoutUsec \div ts
             ts10 == ts * 10
         IN  IF t < timeoutMax
             THEN [timeScale |-> timeScale, timeout |-> t,
                   ret |-> (ts10 \div 10) * t]
             ELSE AnGetTimeScaleFrom(timeScale + 1, ts10, t, timeoutUsec,
                                     timeoutMax)
    ELSE [timeScale |-> timeScale, timeout |-> timeout,
          ret |-> (ts \div 10) * timeout]

(* fm10000AnGetTimeScale: *timeScale, *timeout and the value returned.    *)
(* The products never exceed timeoutUsec, so no fm_uint wraps.            *)
AnGetTimeScale(timeoutUsec, timeoutMax) ==
    AnGetTimeScaleFrom(2, 1, 0, timeoutUsec, timeoutMax)

(* ---- Next-page scan (fm10000AnGetNextPageExtTechAbilityIndex) ---- *)

FM_ERR_NOT_FOUND == "FM_ERR_NOT_FOUND"

(* The value of a word below 2^31 *)
RECURSIVE WordValue(_)
WordValue(w) ==
    IF w = {} THEN 0
    ELSE LET b == CHOOSE x \in w : TRUE
         IN  Pow2(b) + WordValue(w \ {b})

(* FM_GET_UNNAMED_FIELD64(w, start, len) *)
FieldOf(w, start, len) ==
    WordValue({b - start : b \in {x \in w : x >= start /\ x < start + len}})

(* The message / unformatted code field MU of a received next page *)
FM10000_AN_73_NEXT_PAGE_RX_l_MU == 0

FM10000_AN_73_NEXT_PAGE_RX_h_MU == 10

(* Message code of the OUI tagged message *)
FM10000_AN_NEXTPAGE_OUI_MSG_CODE == 5

(* The OUI the scan reassembles from the message page pageA and the       *)
(* unformatted page pageB                                                 *)
NextPageOui(pageA, pageB) ==
    WordValue({cnt \in 0..1 : BitOf(pageB, 9 + cnt) = 1}
              \cup {cnt + 2 : cnt \in {c \in 0..10 : BitOf(pageA, 32 + c) = 1}}
              \cup {cnt + 13 : cnt \in {c \in 0..10 : BitOf(pageA, 16 + c) = 1}})

(* nextPages[i] as the code reads it: an element at or after numPages is  *)
(* not a page of the list, and reading it yields the indeterminate word   *)
(* beyond                                                                  *)
PageAt(np, i, beyond) ==
    IF i < np.numPages THEN np.nextPages[i + 1] ELSE beyond

(* The loop of the scan from pageNum on: found is the index and err the   *)
(* status the earlier iterations left, reads the indexes read so far      *)
RECURSIVE ExtTechAbilityIndexFrom(_, _, _, _, _, _, _)
ExtTechAbilityIndexFrom(np, oui25G, beyond, pageNum, found, err, reads) ==
    IF pageNum < np.numPages
    THEN LET pageA == PageAt(np, pageNum, beyond)
             pageB == PageAt(np, pageNum + 1, beyond)
             isOuiMsg ==
                 FieldOf(pageA, FM10000_AN_73_NEXT_PAGE_RX_l_MU,
                         FM10000_AN_73_NEXT_PAGE_RX_h_MU
                           - FM10000_AN_73_NEXT_PAGE_RX_l_MU + 1)
                   = FM10000_AN_NEXTPAGE_OUI_MSG_CODE
             match == /\ isOuiMsg
                      /\ FieldOf(pageB, 0, 9) = 3
                      /\ NextPageOui(pageA, pageB) = oui25G
         IN  ExtTechAbilityIndexFrom(np, oui25G, beyond, pageNum + 1,
                 IF match THEN pageNum + 1 ELSE found,
                 IF match THEN FM_OK ELSE err,
                 reads \cup {pageNum}
                       \cup (IF isOuiMsg THEN {pageNum + 1} ELSE {}))
    ELSE [status |-> err, extTechAbIndex |-> found, reads |-> reads]

(* fm10000AnGetNextPageExtTechAbilityIndex on the next pages np of a port  *)
(* whose configured OUI is oui25G (extTechAbIndex is never NULL)          *)
AnGetNextPageExtTechAbilityIndex(np, oui25G, beyond) ==
    ExtTechAbilityIndexFrom(np, oui25G, beyond, 0, -1, FM_ERR_NOT_FOUND, {})

(* IsAn25GConfiguredInNextPage *)
IsAn25GConfiguredInNextPage(np, oui25G, beyond) ==
    LET r == AnGetNextPageExtTechAbilityIndex(np, oui25G, beyond)
        page == PageAt(np, r.extTechAbIndex, beyond)
    IN  IF r.status = FM_OK
        THEN [status |-> FM_OK,
              is25GConfigured |-> BitOf(page, 21) = 1 \/ BitOf(page, 20) = 1]
        ELSE IF r.status = FM_ERR_NOT_FOUND
        THEN [status |-> FM_OK, is25GConfigured |-> FALSE]
        ELSE [status |-> r.status, is25GConfigured |-> FALSE]

(* ---- Largest speed (fm10000AnGetMaxSpeedAbilityAndMode) ---- *)

FM10000_AN73_ABILITIES_40G == {"40GBASE_KR4", "40GBASE_CR4"}

FM10000_AN73_ABILITIES_100G == {"100GBASE_KR4", "100GBASE_CR4"}

(* The base page whose 64 bits are all 0 *)
ZeroBasePage == BasePage({}, 0)

(* The chain of tests on the abilities *)
MaxSpeedOf(ability, is25GConfigInNextPage) ==
    IF ability \cap FM10000_AN73_ABILITIES_100G # {}
    THEN [maxSpeed |-> 100000, laneMode |-> "QUAD"]
    ELSE IF ability \cap FM10000_AN73_ABILITIES_40G # {}
    THEN [maxSpeed |-> 40000, laneMode |-> "QUAD"]
    ELSE IF \/ ability \cap {"25GBASE_KR", "25GBASE_CR"} # {}
            \/ is25GConfigInNextPage
    THEN [maxSpeed |-> 25000, laneMode |-> "SINGLE"]
    ELSE IF "10GBASE_KR" \in ability
    THEN [maxSpeed |-> 10000, laneMode |-> "SINGLE"]
    ELSE IF "1000BASE_KX" \in ability
    THEN [maxSpeed |-> 2500, laneMode |-> "SINGLE"]
    ELSE [maxSpeed |-> 0, laneMode |-> "NONE"]

(* fm10000AnGetMaxSpeedAbilityAndMode: caps is the outcome of             *)
(* fm10000GetMultiLaneCapabilities (status, is40GCapable, is100GCapable)  *)
AnGetMaxSpeedAbilityAndMode(mode, basepage, np, oui25G, caps, beyond) ==
    LET none == [maxSpeed |-> 0, laneMode |-> "NONE"]
        ability ==
            IF basepage = ZeroBasePage
            THEN (FM10000_AN73_SUPPORTED_ABILITIES
                    \ (IF caps.is40GCapable THEN {}
                       ELSE FM10000_AN73_ABILITIES_40G))
                    \ (IF caps.is100GCapable THEN {}
                       ELSE FM10000_AN73_ABILITIES_100G)
            ELSE basepage.A
        in25 == IsAn25GConfiguredInNextPage(np, oui25G, beyond)
        out(speed, status) ==
            [maxSpeed |-> speed.maxSpeed, laneMode |-> speed.laneMode,
             status |-> status]
    IN  CASE mode = "CLAUSE_73" ->
               IF basepage = ZeroBasePage /\ caps.status # FM_OK
               THEN out(none, caps.status)
               ELSE IF in25.status # FM_OK
               THEN out(none, in25.status)
               ELSE out(MaxSpeedOf(ability, in25.is25GConfigured), FM_OK)
          [] mode \in {"CLAUSE_37", "SGMII"} ->
               out([maxSpeed |-> 1000, laneMode |-> "SINGLE"], FM_OK)
          [] OTHER -> out(none, FM_ERR_UNSUPPORTED)

(* ---- The management thread (fmPlatformMgmtThread) ---- *)

(* An iteration of the thread that has done nothing yet: the callers whose *)
(* signal woke it, the sweeps it has called, how often it has taken and    *)
(* dropped the switch lock, whether it has cleared pollingPendingTask      *)
NewIteration(wokenBy) ==
    [wokenBy |-> wokenBy, sweeps |-> <<>>, taken |-> 0, dropped |-> 0,
     cleared |-> FALSE]

(* The thread and its semaphore after fmPlatformMgmtInit: the binary       *)
(* semaphore is created empty                                              *)
ThreadStart ==
    /\ mgmtSem = {}
    /\ pollingPendingTask = FALSE
    /\ interruptFlag = FALSE
    /\ threadPc = "wait"
    /\ signalPc = "idle"
    /\ switchLock = FALSE
    /\ iter = NewIteration({})

(* The thread of a switch whose transceiver interrupts are polled *)
ThreadInit == ThreadStart /\ pollXcvrStatus = TRUE

(* A faulty variant: the thread goes on whatever the status *)
SwitchLockTakenAlways(status) == TRUE

(* if (fmPlatformMgmtTakeSwitchLock(sw) != FM_OK) continue; *)
SwitchLockTaken(status) == status = FM_OK

(* if (!interrupt || pollingPendingTask) *)
PollingTaskDue(intr, pending) == ~intr \/ pending

(* if (interrupt || pollXcvrStatus) *)
UpdateStateDue(intr, poll) == intr \/ poll

Init ==
    /\ cfg \in SfppBoards
    /\ xcvrInfo = [p \in DOMAIN cfg.ports |-> ZeroRecord]
    /\ enableMgmt = FALSE
    /\ pc = "constructed"
    /\ list = <<>>
    /\ hwResIdList = <<>>
    /\ pos = 0
    /\ force = FALSE
    /\ last = Step("fmPlatformMgmtInit", -1, FALSE)
    /\ trace = <<>>
    /\ cfgCall = NoCall
    /\ ThreadInit
    /\ AnInit

Idle ==
    /\ pc' = "idle"
    /\ list' = <<>>
    /\ hwResIdList' = <<>>
    /\ pos' = 0
    /\ force' = FALSE

(* Calls that concern the I2C bus and not one port *)
BusEv(op, a, status) == Ev(op, -1, a, 0, status)

TakeLock == BusEv("TAKE_PLAT_I2C_BUS_LOCK", 0, FM_OK)

DropLock == BusEv("DROP_PLAT_I2C_BUS_LOCK", 0, FM_OK)

(* A faulty variant: the SelectBus error path returns with the lock held *)
InitializeQueryKeepsLock(sel, status) ==
    <<TakeLock>>
    \o (IF libFunc.SelectBus THEN <<BusEv("SelectBus", 0, sel)>> ELSE <<>>)
    \o (IF libFunc.SelectBus /\ sel # FM_OK THEN <<>>
        ELSE <<BusEv("GetPortXcvrState", 0, status), DropLock>>)

(* fmPlatformMgmtXcvrInitialize: the state query under the I2C bus lock.   *)
(* A SelectBus failure drops the lock and returns.                         *)
InitializeQuery(sel, status) ==
    <<TakeLock>>
    \o (IF libFunc.SelectBus THEN <<BusEv("SelectBus", 0, sel)>> ELSE <<>>)
    \o (IF libFunc.SelectBus /\ sel # FM_OK THEN <<DropLock>>
        ELSE <<BusEv("GetPortXcvrState", 0, status), DropLock>>)

(* The status with which a state query ends *)
QueryStatus(tr) ==
    IF \E i \in DOMAIN tr : tr[i].op = "GetPortXcvrState" /\ tr[i].status = FM_OK
    THEN FM_OK ELSE FM_FAIL

(* fmPlatformMgmtXcvrInitialize up to the state query: every record is     *)
(* reset; a failure of SelectBus or GetPortXcvrState returns there.        *)
MgmtXcvrInitialize ==
    /\ pc = "constructed"
    /\ xcvrInfo' = [p \in PortIdxs |-> InitialRecord(p)]
    /\ last' = Step("fmPlatformMgmtXcvrInitialize", -1, FALSE)
    /\ IF XcvrPortList(0) = <<>> \/ ~libFunc.GetPortXcvrState
       THEN Idle /\ trace' = <<>>
       ELSE \E sel \in cfg.selectBus, status \in {FM_OK, FM_FAIL} :
              /\ trace' = InitializeQuery(sel, status)
              /\ IF QueryStatus(InitializeQuery(sel, status)) = FM_OK
                 THEN /\ pc' = "init"
                      /\ list' = XcvrPortList(0)
                      /\ hwResIdList' = HwResIds(XcvrPortList(0))
                      /\ pos' = 1
                      /\ force' = FALSE
                 ELSE Idle
    /\ UNCHANGED <<cfg, enableMgmt, cfgCall, anVars, threadVars>>

(* fmPlatformMgmtXcvrInitialize: the loop over the transceiver states *)
MgmtXcvrInitializeLoop ==
    /\ pc = "init"
    /\ \E valid \in cfg.cages[list[pos]].validMasks,
          state \in cfg.cages[list[pos]].states :
         \E rd \in (IF InitializeReads(valid, state)
                    THEN ReadOutcomes(list[pos]) ELSE {FM_FAIL}) :
            LET r == InitializeEntry(xcvrInfo, list[pos], valid, state, rd)
            IN  /\ xcvrInfo' = r.xi
                /\ trace' = r.tr
    /\ last' = Step("fmPlatformMgmtXcvrInitialize", list[pos], FALSE)
    /\ IF pos < Len(list)
       THEN /\ pos' = pos + 1
            /\ UNCHANGED <<pc, list, hwResIdList, force>>
       ELSE Idle
    /\ UNCHANGED <<cfg, enableMgmt, cfgCall, anVars, threadVars>>

(* Hardware resource ids the library may report that belong to no port of  *)
(* the port table                                                          *)
StrayIds == IF "strayIds" \in DOMAIN cfg THEN cfg.strayIds ELSE {}

(* The ports the search of the port table finds for a hardware resource id *)
PortIdxsOfHwResId(id) == {p \in PortIdxs : cfg.ports[p].hwResourceId = id}

(* The cage whose pins libFunc->GetPortXcvrState reports for an id *)
CageOfHwResId(id) ==
    IF PortIdxsOfHwResId(id) # {}
    THEN cfg.cages[CHOOSE p \in PortIdxsOfHwResId(id) : TRUE]
    ELSE cfg.strayCage

(* Entry i of an XcvrUpdateState sweep: the words the library reported for *)
(* ids[i] are processed for the port index lst[i]; after the last entry    *)
(* the sweep returns, and fmPlatformMgmtEnableInterrupt (the caller that   *)
(* forces) sets enableMgmt.                                                *)
UpdateStateStep(lst, ids, i, frc, pre) ==
    /\ \E valid \in CageOfHwResId(ids[i]).validMasks,
          state \in CageOfHwResId(ids[i]).states :
         \E rd \in ReadDomain(xcvrInfo, lst[i], valid, state) :
           \E io \in IoDomain(lst[i], rd) :
              LET r == UpdateStateEntry(xcvrInfo, lst[i], frc, valid, state, rd, io)
              IN  /\ xcvrInfo' = r.xi
                  /\ trace' = pre \o r.tr
    /\ last' = Step("XcvrUpdateState", lst[i], frc)
    /\ IF i < Len(lst)
       THEN /\ pc' = "update"
            /\ list' = lst
            /\ hwResIdList' = ids
            /\ pos' = i + 1
            /\ force' = frc
            /\ UNCHANGED enableMgmt
       ELSE /\ Idle
            /\ enableMgmt' = (enableMgmt \/ frc)
    /\ UNCHANGED cfg

(* The most ports libFunc->GetPortIntrPending reports at once *)
MaxPending == 2

(* The hardware resource ids libFunc->GetPortIntrPending may report: those *)
(* of the transceiver ports, and the stray ones                            *)
PendingIds ==
    {cfg.ports[q].hwResourceId : q \in {p \in PortIdxs : IsXcvrIntf(p)}}
    \cup StrayIds

(* The lists libFunc->GetPortIntrPending may fill hwResIdList with, in the *)
(* order the library chooses: up to n distinct hardware resource ids       *)
RECURSIVE PendingLists(_)
PendingLists(n) ==
    IF n = 0 THEN {<<>>}
    ELSE LET shorter == PendingLists(n - 1)
         IN  shorter \cup
             UNION {{Append(l, id) : id \in PendingIds \ {l[i] : i \in DOMAIN l}}
                    : l \in {s \in shorter : Len(s) = n - 1}}

(* Outcomes of libFunc->GetPortIntrPending: failure, or the pending        *)
(* hardware resource ids                                                   *)
PendingOutcomes ==
    {[status |-> FM_FAIL, list |-> <<>>]}
    \cup {[status |-> FM_OK, list |-> l] : l \in PendingLists(MaxPending) \ {<<>>}}

(* XcvrUpdateState: the pending-interrupt query under the I2C bus lock *)
IntrQuery(interrupting, pend) ==
    IF interrupting /\ libFunc.GetPortIntrPending
    THEN <<TakeLock, BusEv("GetPortIntrPending", Len(pend.list), pend.status), DropLock>>
    ELSE <<>>

(* numPorts after the search loops: one more for every port that matches   *)
(* an entry of hwResIdList                                                 *)
RECURSIVE NumPortsMatched(_)
NumPortsMatched(ids) ==
    IF ids = <<>> THEN 0
    ELSE Cardinality(PortIdxsOfHwResId(Head(ids))) + NumPortsMatched(Tail(ids))

(* The largest element of a non-empty set of port indices *)
LastPortIdx(S) == CHOOSE p \in S : \A q \in S : q <= p

(* hwResIdIdxList after the search loops: entry cnt holds the last port    *)
(* index whose hwResourceId is hwResIdList[cnt]; an entry for which no     *)
(* port matches is never written and holds whatever the stack held, any    *)
(* index of the port table among the values                                *)
HwResIdIdxLists(ids) ==
    { l \in [DOMAIN ids -> PortIdxs] :
        \A cnt \in DOMAIN ids :
            PortIdxsOfHwResId(ids[cnt]) # {}
                => l[cnt] = LastPortIdx(PortIdxsOfHwResId(ids[cnt])) }

(* Whether XcvrUpdateState processes the pending ports rather than all *)
UsesPending(interrupting, pend) ==
    /\ interrupting
    /\ libFunc.GetPortIntrPending
    /\ pend.status = FM_OK
    /\ Len(pend.list) > 0

(* XcvrUpdateState: the port indices the loop processes, the first         *)
(* numPorts entries of hwResIdIdxList (idxs after the search loops), or    *)
(* all transceiver ports                                                   *)
UpdateStateList(interrupting, pend, idxs) ==
    IF UsesPending(interrupting, pend)
    THEN SubSeq(idxs, 1, NumPortsMatched(pend.list))
    ELSE XcvrPortList(0)

(* XcvrUpdateState: hwResIdList as libFunc->GetPortXcvrState is given it   *)
UpdateStateHwResIds(interrupting, pend) ==
    IF UsesPending(interrupting, pend)
    THEN pend.list
    ELSE HwResIds(XcvrPortList(0))

(* XcvrUpdateState: the state query under the I2C bus lock, for the first  *)
(* numPorts entries ids of hwResIdList.  A SelectBus failure is logged and *)
(* the query is made all the same.                                         *)
UpdateStateQuery(sel, status, ids) ==
    <<TakeLock>>
    \o (IF libFunc.SelectBus THEN <<BusEv("SelectBus", 0, sel)>> ELSE <<>>)
    \o <<Ev("GetPortXcvrState", -1, 0, ids, status), DropLock>>

(* XcvrUpdateState(sw, frc, interrupting) from its entry to the end of the *)
(* first loop iteration, or to its return when there is nothing to process *)
(* or GetPortXcvrState fails.                                              *)
UpdateStateCall(frc, interrupting) ==
    LET Return(tr) ==
            /\ Idle
            /\ trace' = tr
            /\ last' = Step("XcvrUpdateState", -1, frc)
            /\ enableMgmt' = (enableMgmt \/ frc)
            /\ UNCHANGED <<cfg, xcvrInfo>>
    IN  IF ~libFunc.GetPortXcvrState THEN Return(<<>>)
        ELSE \E pend \in (IF interrupting THEN PendingOutcomes
                                           ELSE {[status |-> FM_FAIL, list |-> <<>>]}),
                sel \in cfg.selectBus, status \in {FM_OK, FM_FAIL} :
              \E idxs \in HwResIdIdxLists(pend.list) :
               LET intr == IntrQuery(interrupting, pend)
                   lst  == UpdateStateList(interrupting, pend, idxs)
                   ids  == UpdateStateHwResIds(interrupting, pend)
                   bus  == UpdateStateQuery(sel, status, SubSeq(ids, 1, Len(lst)))
               IN  IF lst = <<>> THEN Return(intr)
                   ELSE IF status # FM_OK THEN Return(intr \o bus)
                   ELSE UpdateStateStep(lst, ids, 1, frc, intr \o bus)

(* A faulty variant: the thread does not wait for the switch bring-up *)
MgmtThreadRunsAlways == TRUE

(* fmPlatformMgmtThread: if (!enableMgmt) continue; *)
MgmtThreadRuns == enableMgmt

(* fmPlatformMgmtEnableInterrupt: the forced update of the start-up state *)
MgmtEnableInterrupt ==
    /\ pc = "idle"
    /\ ~enableMgmt
    /\ UpdateStateCall(TRUE, FALSE)
    /\ UNCHANGED <<cfgCall, anVars, threadVars>>

(* The wake-ups of the thread that XcvrUpdateState tells apart: the        *)
(* interrupt flag is read only together with libFunc->GetPortIntrPending   *)
InterruptChoices == IF libFunc.GetPortIntrPending THEN BOOLEAN ELSE {FALSE}

(* The management thread calls XcvrUpdateState(sw, FALSE, interrupt):      *)
(* interrupt tells whether the semaphore was signalled or timed out        *)
XcvrUpdateState ==
    /\ pc = "idle"
    /\ MgmtThreadRuns
    /\ \E interrupt \in InterruptChoices : UpdateStateCall(FALSE, interrupt)
    /\ UNCHANGED <<cfgCall, anVars, threadVars>>

(* The remaining iterations of the loop of XcvrUpdateState *)
XcvrUpdateStateLoop ==
    /\ pc = "update"
    /\ UpdateStateStep(list, hwResIdList, pos, force, <<>>)
    /\ UNCHANGED <<cfgCall, anVars, threadVars>>

(* The management thread calls XcvrRetryEepromRead(sw) *)
XcvrRetryEepromRead ==
    /\ pc = "idle"
    /\ MgmtThreadRuns
    /\ \E rds \in PerPort(RetryReadDomain(0), RetryReadDomain(1),
                         RetryReadDomain(2), RetryReadDomain(3)) :
          LET r == IF libFunc.I2cWriteRead
                   THEN RetryEepromReadFrom([xi |-> xcvrInfo, tr |-> <<>>], 0, rds)
                   ELSE [xi |-> xcvrInfo, tr |-> <<>>]
          IN  /\ xcvrInfo' = r.xi
              /\ trace' = r.tr
    /\ last' = Step("XcvrRetryEepromRead", -1, FALSE)
    /\ UNCHANGED <<cfg, enableMgmt, pc, list, hwResIdList, pos, force, cfgCall, anVars, threadVars>>

(* The management thread calls XcvrRetryConfig(sw) *)
XcvrRetryConfig ==
    /\ pc = "idle"
    /\ MgmtThreadRuns
    /\ \E ios \in PerPort(RetryConfigDomain(0), RetryConfigDomain(1),
                          RetryConfigDomain(2), RetryConfigDomain(3)) :
          LET r == IF libFunc.I2cWriteRead
                   THEN RetryConfigFrom([xi |-> xcvrInfo, tr |-> <<>>], 0, ios)
                   ELSE [xi |-> xcvrInfo, tr |-> <<>>]
          IN  /\ xcvrInfo' = r.xi
              /\ trace' = r.tr
    /\ last' = Step("XcvrRetryConfig", -1, FALSE)
    /\ UNCHANGED <<cfg, enableMgmt, pc, list, hwResIdList, pos, force, cfgCall, anVars, threadVars>>

(* The record update of fmPlatformMgmtConfigSfppXcvrAutoNeg: the           *)
(* configuration is left to the management thread.                         *)
ScheduleConfig(xi, portIdx) ==
    [xi EXCEPT ![portIdx].configRetries = MAX_CONFIG_RETRY]

(* fmPlatformMgmtConfigSfppXcvrAutoNeg(sw, port, enable), called by the    *)
(* API between two sweeps.                                                 *)
MgmtConfigSfppXcvrAutoNeg ==
    /\ pc = "idle"
    /\ enableMgmt
    /\ \E port \in cfg.apiPorts :
          /\ xcvrInfo' = IF cfg.xcvrPollPeriodMsec = 0 \/ CfgPortGetIndex(port) < 0
                         THEN xcvrInfo
                         ELSE ScheduleConfig(xcvrInfo, CfgPortGetIndex(port))
          /\ last' = Step("fmPlatformMgmtConfigSfppXcvrAutoNeg",
                          CfgPortGetIndex(port), FALSE)
    /\ trace' = <<>>
    /\ UNCHANGED <<cfg, enableMgmt, pc, list, hwResIdList, pos, force, cfgCall, anVars, threadVars>>

(* The port index whose record fmPlatformMgmtGetTransceiverType reads      *)
GetTransceiverTypeOwnIdx(portIdx) == portIdx

GetTransceiverTypeIdx(portIdx) ==
    IF cfg.ports[portIdx].intfType \in {"QSFP_LANE1", "QSFP_LANE2", "QSFP_LANE3"}
    THEN cfg.epls[cfg.ports[portIdx].epl].laneToPortIdx[0]
    ELSE portIdx

(* The stores to *xcvrType and *xcvrLen and the status returned by         *)
(* fmPlatformMgmtGetTransceiverType(sw, port, xcvrType, xcvrLen), both     *)
(* output pointers given                                                   *)
GetTransceiverType(port) ==
    LET portIdx == CfgPortGetIndex(port) IN
    IF portIdx < 0
    THEN <<Ev("return", port, "", 0, "FM_ERR_INVALID_PORT")>>
    ELSE LET xi == xcvrInfo[GetTransceiverTypeIdx(portIdx)] IN
         <<Ev("*xcvrType", port, xi.type, 0, FM_OK),
           Ev("*xcvrLen", port, "", xi.cableLength, FM_OK),
           Ev("return", port, "", 0, FM_OK)>>

(* fmPlatformMgmtGetTransceiverType is called from the API at any time     *)
(* after fmPlatformMgmtInit                                                *)
MgmtGetTransceiverType ==
    /\ \E port \in cfg.queryPorts :
          /\ trace' = GetTransceiverType(port)
          /\ last' = Step("fmPlatformMgmtGetTransceiverType",
                          CfgPortGetIndex(port), FALSE)
    /\ UNCHANGED <<cfg, xcvrInfo, enableMgmt, pc, list, hwResIdList, pos, force, cfgCall, anVars, threadVars>>

(* XcvrRetryConfig, one statement at a time, for the calls of the API     *)
(* that run while the sweep is under way.  pos is portIdx.                *)

(* portIdx++ and the loop test *)
RetryConfigAdvance ==
    IF pos + 1 < NumPort
    THEN pc' = "config" /\ pos' = pos + 1
    ELSE pc' = "idle" /\ pos' = 0

(* XcvrRetryConfig is entered: if ( !libFunc->I2cWriteRead ) return; *)
RetryConfigEnter ==
    /\ pc = "idle"
    /\ MgmtThreadRuns
    /\ IF libFunc.I2cWriteRead /\ NumPort > 0
       THEN pc' = "config" /\ pos' = 0
       ELSE UNCHANGED <<pc, pos>>
    /\ trace' = <<>>
    /\ last' = Step("RetryConfigEnter", -1, FALSE)
    /\ UNCHANGED <<cfg, xcvrInfo, enableMgmt, list, hwResIdList, force, cfgCall, anVars, threadVars>>

(* The tests of one iteration and xcvrInfo->configRetries-- *)
RetryConfigGuard ==
    /\ pc = "config"
    /\ IF IsXcvrIntf(pos) /\ xcvrInfo[pos].eepromBaseValid
                          /\ xcvrInfo[pos].configRetries > 0
       THEN /\ xcvrInfo' = [xcvrInfo EXCEPT ![pos].configRetries = @ - 1]
            /\ IF cfg.ports[pos].intfType = "SFPP"
               THEN pc' = "configure" /\ pos' = pos
               ELSE RetryConfigAdvance
       ELSE /\ xcvrInfo' = xcvrInfo
            /\ RetryConfigAdvance
    /\ trace' = <<>>
    /\ last' = Step("RetryConfigGuard", pos, FALSE)
    /\ UNCHANGED <<cfg, enableMgmt, list, hwResIdList, force, cfgCall, anVars, threadVars>>

(* ConfigureSfppXcvr(sw, portCfg->port, xcvrInfo) runs and returns *)
RetryConfigCall ==
    /\ pc = "configure"
    /\ \E io \in (IF ConfigureDoesIo(xcvrInfo[pos])
                  THEN IoOutcomesFor(pos, xcvrInfo[pos].eeprom) ELSE {NoIo}) :
          LET c == ConfigureSfppXcvr([xi |-> xcvrInfo, tr |-> <<>>],
                                     cfg.ports[pos].port, pos, io)
          IN  /\ xcvrInfo' = c.xi
              /\ trace' = c.tr
              /\ cfgCall' = [ethMode |-> xcvrInfo[pos].ethMode, status |-> c.status]
    /\ pc' = "configured"
    /\ last' = Step("RetryConfigCall", pos, FALSE)
    /\ UNCHANGED <<cfg, enableMgmt, list, hwResIdList, pos, force, anVars, threadVars>>

(* if (FM_OK == ConfigureSfppXcvr(...)) xcvrInfo->configRetries = 0; *)
RetryConfigResult ==
    /\ pc = "configured"
    /\ xcvrInfo' = IF cfgCall.status = FM_OK
                   THEN [xcvrInfo EXCEPT ![pos].configRetries = 0]
                   ELSE xcvrInfo
    /\ RetryConfigAdvance
    /\ cfgCall' = NoCall
    /\ trace' = <<>>
    /\ last' = Step("RetryConfigResult", pos, FALSE)
    /\ UNCHANGED <<cfg, enableMgmt, list, hwResIdList, force, anVars, threadVars>>

(* fmPlatformMgmtNotifyEthModeChange(sw, port, mode) on the records xi:    *)
(* the records and the calls it leaves                                     *)
NotifyEthModeChange(xi, port, mode, io) ==
    LET portIdx == CfgPortGetIndex(port) IN
    IF portIdx < 0 THEN [xi |-> xi, tr |-> <<>>]
    ELSE LET x1 == [xi EXCEPT ![portIdx].ethMode = mode]
             serdes == <<SerdesEv(portIdx, x1, IsMultiLane(mode))>>
         IN  IF /\ ~IsMultiLane(mode)
                /\ cfg.ports[portIdx].intfType = "SFPP"
                /\ x1[portIdx].present
             THEN IF cfg.xcvrPollPeriodMsec = 0
                  THEN LET c == ConfigureSfppXcvr([xi |-> x1, tr |-> serdes],
                                                  port, portIdx, io)
                       IN  [xi |-> c.xi, tr |-> c.tr]
                  ELSE [xi |-> ScheduleConfig(x1, portIdx),
                        tr |-> serdes \o <<Ev("fmPlatformMgmtSignalPollingThread",
                                              port, 0, 0, FM_OK)>>]
             ELSE [xi |-> x1, tr |-> serdes]

(* The ethernet modes the API sets *)
NotifiedModes == {"1000BASE_X", "10GBASE_SR", "40GBASE_SR4"}

(* fmPlatformMgmtNotifyEthModeChange is called by the API: it takes no     *)
(* lock of its own and runs at any point of the management thread          *)
MgmtNotifyEthModeChange ==
    /\ pc # "constructed"
    /\ \E port \in cfg.apiPorts, mode \in NotifiedModes :
          LET portIdx == CfgPortGetIndex(port) IN
          \E io \in (IF portIdx >= 0 /\ ConfigureDoesIo(xcvrInfo[portIdx])
                     THEN IoOutcomesFor(portIdx, xcvrInfo[portIdx].eeprom)
                     ELSE {NoIo}) :
             LET r == NotifyEthModeChange(xcvrInfo, port, mode, io)
             IN  /\ xcvrInfo' = r.xi
                 /\ trace' = r.tr
                 /\ last' = Step("fmPlatformMgmtNotifyEthModeChange", portIdx, FALSE)
    /\ UNCHANGED <<cfg, enableMgmt, pc, list, hwResIdList, pos, force, cfgCall, anVars, threadVars>>

Next ==
    \/ MgmtGetTransceiverType
    \/ MgmtXcvrInitialize
    \/ MgmtXcvrInitializeLoop
    \/ MgmtEnableInterrupt
    \/ XcvrUpdateState
    \/ XcvrUpdateStateLoop
    \/ XcvrRetryEepromRead
    \/ XcvrRetryConfig
    \/ MgmtConfigSfppXcvrAutoNeg

Spec == Init /\ [][Next]_vars

(* The same code on the board with both SFP+ cages in use *)
InitTwoCages ==
    /\ cfg \in TwoCageBoards
    /\ xcvrInfo = [p \in DOMAIN cfg.ports |-> ZeroRecord]
    /\ enableMgmt = FALSE
    /\ pc = "constructed"
    /\ list = <<>>
    /\ hwResIdList = <<>>
    /\ pos = 0
    /\ force = FALSE
    /\ last = Step("fmPlatformMgmtInit", -1, FALSE)
    /\ trace = <<>>
    /\ cfgCall = NoCall
    /\ ThreadInit
    /\ AnInit

SpecTwoCages == InitTwoCages /\ [][Next]_vars

(* The same code on the board with the signal pins wired *)
InitSignals ==
    /\ cfg \in SignalBoards
    /\ xcvrInfo = [p \in DOMAIN cfg.ports |-> ZeroRecord]
    /\ enableMgmt = FALSE
    /\ pc = "constructed"
    /\ list = <<>>
    /\ hwResIdList = <<>>
    /\ pos = 0
    /\ force = FALSE
    /\ last = Step("fmPlatformMgmtInit", -1, FALSE)
    /\ trace = <<>>
    /\ cfgCall = NoCall
    /\ ThreadInit
    /\ AnInit

SpecSignals == InitSignals /\ [][Next]_vars

(* The same code on the board with a stray interrupt source *)
InitStray ==
    /\ cfg \in StrayBoards
    /\ xcvrInfo = [p \in DOMAIN cfg.ports |-> ZeroRecord]
    /\ enableMgmt = FALSE
    /\ pc = "constructed"
    /\ list = <<>>
    /\ hwResIdList = <<>>
    /\ pos = 0
    /\ force = FALSE
    /\ last = Step("fmPlatformMgmtInit", -1, FALSE)
    /\ trace = <<>>
    /\ cfgCall = NoCall
    /\ ThreadInit
    /\ AnInit

SpecStray == InitStray /\ [][Next]_vars

(* The same code on a board with one QSFP cage *)
InitQsfp ==
    /\ cfg \in QsfpBoards
    /\ xcvrInfo = [p \in DOMAIN cfg.ports |-> ZeroRecord]
    /\ enableMgmt = FALSE
    /\ pc = "constructed"
    /\ list = <<>>
    /\ hwResIdList = <<>>
    /\ pos = 0
    /\ force = FALSE
    /\ last = Step("fmPlatformMgmtInit", -1, FALSE)
    /\ trace = <<>>
    /\ cfgCall = NoCall
    /\ ThreadInit
    /\ AnInit

SpecQsfp == InitQsfp /\ [][Next]_vars

(* The same code on the board with port interrupts *)
InitBus ==
    /\ cfg \in BusBoards
    /\ xcvrInfo = [p \in DOMAIN cfg.ports |-> ZeroRecord]
    /\ enableMgmt = FALSE
    /\ pc = "constructed"
    /\ list = <<>>
    /\ hwResIdList = <<>>
    /\ pos = 0
    /\ force = FALSE
    /\ last = Step("fmPlatformMgmtInit", -1, FALSE)
    /\ trace = <<>>
    /\ cfgCall = NoCall
    /\ ThreadInit
    /\ AnInit

SpecBus == InitBus /\ [][Next]_vars

(* The management thread and the API thread that changes ethernet modes   *)
InitEthMode ==
    /\ cfg \in EthModeBoards
    /\ xcvrInfo = [p \in DOMAIN cfg.ports |-> ZeroRecord]
    /\ enableMgmt = FALSE
    /\ pc = "constructed"
    /\ list = <<>>
    /\ hwResIdList = <<>>
    /\ pos = 0
    /\ force = FALSE
    /\ last = Step("fmPlatformMgmtInit", -1, FALSE)
    /\ trace = <<>>
    /\ cfgCall = NoCall
    /\ ThreadInit
    /\ AnInit

NextEthMode ==
    \/ Next
    \/ RetryConfigEnter
    \/ RetryConfigGuard
    \/ RetryConfigCall
    \/ RetryConfigResult
    \/ MgmtNotifyEthModeChange

SpecEthMode == InitEthMode /\ [][NextEthMode]_vars

An73Bits == { An73Events[i][1] : i \in DOMAIN An73Events }

An37Bits == { An37Events[i][1] : i \in DOMAIN An37Events }

(* The most bits of a pending mask, the masks with every bit apart *)
MaxBits == 2

(* The pending masks of an AN interrupt: up to MaxBits bits that Clause 73 *)
(* events stand for, or that Clause 37 events stand for; all of them; and  *)
(* masks with bits of both kinds and bits without event                    *)
AnIpMasks ==
    { m \in SUBSET An73Bits : Cardinality(m) <= MaxBits }
    \cup { m \in SUBSET An37Bits : Cardinality(m) <= MaxBits }
    \cup {An73Bits, An37Bits, AnOtherBits, An73Bits \cup An37Bits \cup AnOtherBits,
          {"An73AbilityDetect", "An73AcknowledgeDetect", "An73AnGood"},
          {"An73AnGood", "An37LinkOk", "An73MrPageRx"}}

(* The delivery that fails, counted from 1; 0 for none *)
MaxFailAt == 2

(* The AN interrupts serviced: any mask on the lane of port 1, with any    *)
(* delivery failing; two masks on the lanes that have no port              *)
AnInterrupts ==
    { <<ln, anIp, failAt>> \in AnLanes \X AnIpMasks \X (0..MaxFailAt) :
        AnEventHandlerPort(ln[1], ln[2]) < 0 =>
            failAt = 0 /\ anIp \in {An73Bits, {"An37LinkOk"}} }

(* The entry of a function: its arguments *)
CallEv(op, port, a, b) == Ev(op, port, a, b, FM_OK)

(* The AN interrupt of a lane is serviced *)
fm10000AnEventHandler ==
    /\ \E intr \in AnInterrupts :
          LET ln == intr[1]  anIp == intr[2]  failAt == intr[3] IN
          /\ trace' = <<CallEv("fm10000AnEventHandler", AnEventHandlerPort(ln[1], ln[2]),
                               ln, anIp)>>
                       \o AnEventHandler(portExt, ln[1], ln[2], anIp, failAt)
          /\ last' = Step("fm10000AnEventHandler", AnEventHandlerPort(ln[1], ln[2]), FALSE)
    /\ UNCHANGED <<mgmtVars, anVars, threadVars>>

(* The configurations the API asks for *)
AnConfigs ==
    { AnConfig("CLAUSE_73", 1, <<>>), AnConfig("CLAUSE_37", 2, <<5>>),
      AnConfig("SGMII", 3, <<>>), AnConfig("NONE", 0, <<>>) }

AnEthModes == {"AN_73", "1000BASE_X", "SGMII", "10GBASE_SR"}

(* The statuses of fmStartStateMachine and of the AN_CONFIG_REQ delivery *)
AnIoOutcomes ==
    { [start |-> FM_OK, config |-> FM_OK], [start |-> FM_OK, config |-> FM_FAIL],
      [start |-> FM_FAIL, config |-> FM_OK] }

(* The API sets the autonegotiation of a port *)
fm10000AnRestartOnNewConfig ==
    /\ \E port \in AnPorts, ethMode \in AnEthModes, c \in AnConfigs, io \in AnIoOutcomes :
          LET r == AnRestartOnNewConfig(portExt, portAttr, port, ethMode, c, io)
          IN  /\ portExt' = r.pe
              /\ trace' = <<CallEv("fm10000AnRestartOnNewConfig", port, ethMode, c)>>
                           \o r.tr
                           \o <<Ev("return", port, "", <<>>, r.status)>>
              /\ last' = Step("fm10000AnRestartOnNewConfig", port, FALSE)
    /\ UNCHANGED <<mgmtVars, threadVars, portAttr, portAttrExt>>

(* The API stores the autonegotiation attributes of a port (the caller of  *)
(* fm10000AnRestartOnNewConfig keeps them in GET_PORT_ATTR)                *)
AnSetPortAttr ==
    /\ \E port \in {p \in AnPorts : IsEthernetPort(p)}, c \in AnConfigs :
          /\ portAttr' = [portAttr EXCEPT ![port] = c]
          /\ last' = Step("AnSetPortAttr", port, FALSE)
    /\ trace' = <<>>
    /\ UNCHANGED <<mgmtVars, threadVars, portExt, portAttrExt>>

(* The autonegotiation code alone *)
InitAn ==
    /\ cfg \in BusBoards
    /\ xcvrInfo = [p \in DOMAIN cfg.ports |-> ZeroRecord]
    /\ enableMgmt = FALSE
    /\ pc = "constructed"
    /\ list = <<>>
    /\ hwResIdList = <<>>
    /\ pos = 0
    /\ force = FALSE
    /\ last = Step("fmPlatformMgmtInit", -1, FALSE)
    /\ trace = <<>>
    /\ cfgCall = NoCall
    /\ ThreadInit
    /\ AnInit

NextAn ==
    \/ fm10000AnEventHandler
    \/ fm10000AnRestartOnNewConfig
    \/ AnSetPortAttr

SpecAn == InitAn /\ [][NextAn]_vars

(* Next-page words given to fm10000AnAddNextPage: with and without the NP  *)
(* bit                                                                     *)
NextPageWords == {{0}, {1}, {0, 1, FM10000_AN_73_NEXT_PAGE_TX_b_NP}}

(* The API adds a next page to a port *)
fm10000AnAddNextPage ==
    /\ \E port \in AnPorts, nextPage \in NextPageWords, allocOk \in BOOLEAN :
          LET r == AnAddNextPage(portAttr[port].autoNegNextPages, nextPage,
                                 allocOk)
          IN  /\ portAttr' = [portAttr EXCEPT
                                 ![port].autoNegNextPages = r.np]
              /\ trace' = <<CallEv("fm10000AnAddNextPage", port, nextPage, 0),
                            Ev("return", port, "", <<>>, r.status)>>
              /\ last' = Step("fm10000AnAddNextPage", port, FALSE)
    /\ UNCHANGED <<mgmtVars, threadVars, portExt, portAttrExt>>

(* The next-page list of every port starts empty *)
InitNextPage ==
    /\ cfg \in BusBoards
    /\ xcvrInfo = [p \in DOMAIN cfg.ports |-> ZeroRecord]
    /\ enableMgmt = FALSE
    /\ pc = "constructed"
    /\ list = <<>>
    /\ hwResIdList = <<>>
    /\ pos = 0
    /\ force = FALSE
    /\ last = Step("fmPlatformMgmtInit", -1, FALSE)
    /\ trace = <<>>
    /\ cfgCall = NoCall
    /\ ThreadInit
    /\ portExt = [p \in AnPorts |->
                    [anSmType |-> FM_SMTYPE_UNSPECIFIED,
                     anInterruptMask |-> "0",
                     anSm |-> AnSmStopped]]
    /\ portAttr = [p \in AnPorts |-> AnConfig("NONE", 0, NoNextPages)]
    /\ portAttrExt = [p \in AnPorts |-> DefaultLinkInhbTimers]

NextNextPage == fm10000AnAddNextPage

SpecNextPage == InitNextPage /\ [][NextNextPage]_vars

(* Largest number of ability bits in a base page given to the validation *)
MaxAbilityBits == 2

BasePages ==
    { BasePage(A, other) :
        A \in {S \in SUBSET AN73Abilities : Cardinality(S) <= MaxAbilityBits},
        other \in {0, 1} }

(* The calls of fm10000AnValidateBasePage: the caller's result variable    *)
(* holds the base page itself or an unrelated page before the call         *)
ValidateBasePageCalls ==
    { CallEv("fm10000AnValidateBasePage", port,
             [mode |-> mode, basepage |-> basepage,
              modBasePage |-> IF own THEN basepage ELSE BasePage({}, 7)],
             capabilities) :
        port \in {1}, mode \in {"CLAUSE_73", "CLAUSE_37"},
        basepage \in BasePages, capabilities \in SUBSET PortSpeedCapabilities,
        own \in BOOLEAN }

(* A call of the function op is pending *)
AnFnPending(op) == Len(trace) = 1 /\ trace[1].op = op

(* The pending call returns out and status *)
AnFnReturn(out, status) ==
    /\ trace' = trace \o <<Ev("return", trace[1].port, out, <<>>, status)>>
    /\ last' = Step(trace[1].op, trace[1].port, FALSE)

(* The API validates a base page *)
fm10000AnValidateBasePage ==
    /\ AnFnPending("fm10000AnValidateBasePage")
    /\ LET in == trace[1].a
           r == AnValidateBasePage(in.mode, in.basepage, trace[1].b,
                                   in.modBasePage)
       IN  AnFnReturn(r.modBasePage, r.status)
    /\ UNCHANGED <<mgmtVars, anVars, threadVars>>

(* The calls of fm10000An73HcdToEthMode: the codes that have a name and    *)
(* two integers that have none                                             *)
HcdToEthModeCalls ==
    { CallEv("fm10000An73HcdToEthMode", -1, hcd, 0) :
        hcd \in AN73_HCD_Codes \cup {"-1", "99"} }

(* The HCD of a port is translated *)
fm10000An73HcdToEthMode ==
    /\ AnFnPending("fm10000An73HcdToEthMode")
    /\ AnFnReturn(An73HcdToEthMode(trace[1].a), FM_OK)
    /\ UNCHANGED <<mgmtVars, anVars, threadVars>>

(* Timeouts in microseconds and hardware maxima given to                   *)
(* fm10000AnGetTimeScale                                                   *)
TimeoutsUsec ==
    {0, 1, 9, 511, 512, 5119, 5120, 5125, 51200, 500000, 511000, 1023000,
     51199999, 51200000, 102400000, 2000000000}

TimeoutMaxima == {1, 512, 1024}

GetTimeScaleCalls ==
    { CallEv("fm10000AnGetTimeScale", -1, timeoutUsec, timeoutMax) :
        timeoutUsec \in TimeoutsUsec, timeoutMax \in TimeoutMaxima }

(* A timeout is scaled for the hardware *)
fm10000AnGetTimeScale ==
    /\ AnFnPending("fm10000AnGetTimeScale")
    /\ AnFnReturn(AnGetTimeScale(trace[1].a, trace[1].b), FM_OK)
    /\ UNCHANGED <<mgmtVars, anVars, threadVars>>

(* Next pages given to the scan: an OUI tagged message page that carries   *)
(* the bits 2..23 of the configured OUI and one that carries another OUI,  *)
(* extended technology ability pages that carry the bits 0..1 of the       *)
(* configured OUI without and with a 25G bit, and a null message page      *)
NpOuiMsg == {0, 2, 16, 33}

NpOuiMsgOther == {0, 2, 17}

NpExtTech == {0, 1, 9}

NpExtTech25G_CR == {0, 1, 9, 20}

NpExtTech25G_KR == {0, 1, 9, 21}

NpNull == {0}

ScanPages == {NpOuiMsg, NpOuiMsgOther, NpExtTech, NpExtTech25G_KR, NpNull}

(* Largest number of next pages in a list given to the scan *)
MaxPages == 2

NextPageLists ==
    { [numPages |-> n, nextPages |-> s] :
        n \in {0}, s \in {<<>>} }
    \cup UNION { { [numPages |-> n, nextPages |-> s] :
                     s \in [1..n -> ScanPages] } : n \in 1..MaxPages }

(* The words a read after the last page of a list may yield *)
BeyondPages == {NpNull, NpExtTech25G_CR}

(* The outcome of fm10000GetMultiLaneCapabilities *)
MultiLaneCaps(status, is40GCapable, is100GCapable) ==
    [status |-> status, is40GCapable |-> is40GCapable,
     is100GCapable |-> is100GCapable]

(* The calls of fm10000AnGetMaxSpeedAbilityAndMode: the multi-lane         *)
(* capabilities are asked for only when the base page is 0                 *)
GetMaxSpeedCalls ==
    { CallEv("fm10000AnGetMaxSpeedAbilityAndMode", 1,
             [mode |-> "CLAUSE_73", basepage |-> basepage, nextPages |-> np,
              beyond |-> beyond],
             MultiLaneCaps(FM_OK, TRUE, TRUE)) :
        basepage \in {bp \in BasePages : bp.other = 0 /\ bp # ZeroBasePage}
                        \cup {BasePage({}, 1)},
        np \in NextPageLists, beyond \in BeyondPages }
    \cup
    { CallEv("fm10000AnGetMaxSpeedAbilityAndMode", 1,
             [mode |-> "CLAUSE_73", basepage |-> ZeroBasePage,
              nextPages |-> np, beyond |-> beyond],
             MultiLaneCaps(st, c40, c100)) :
        np \in NextPageLists, beyond \in BeyondPages,
        st \in {FM_OK, FM_FAIL}, c40 \in BOOLEAN, c100 \in BOOLEAN }
    \cup
    { CallEv("fm10000AnGetMaxSpeedAbilityAndMode", 1,
             [mode |-> mode, basepage |-> BasePage({"10GBASE_KR"}, 0),
              nextPages |-> [numPages |-> 0, nextPages |-> <<>>],
              beyond |-> NpNull],
             MultiLaneCaps(FM_OK, TRUE, TRUE)) :
        mode \in {"CLAUSE_37", "SGMII", "NONE"} }

(* The largest speed of the abilities a port advertises is asked for *)
fm10000AnGetMaxSpeedAbilityAndMode ==
    /\ AnFnPending("fm10000AnGetMaxSpeedAbilityAndMode")
    /\ LET in == trace[1].a
           r == AnGetMaxSpeedAbilityAndMode(in.mode, in.basepage,
                    in.nextPages, portAttr[trace[1].port].autoNeg25GNxtPgOui,
                    trace[1].b, in.beyond)
       IN  AnFnReturn([maxSpeed |-> r.maxSpeed, laneMode |-> r.laneMode],
                      r.status)
    /\ UNCHANGED <<mgmtVars, anVars, threadVars>>

(* The calls of the scan: a list of received next pages and the word the   *)
(* element after the list holds                                            *)
GetExtTechAbilityIndexCalls ==
    { CallEv("fm10000AnGetNextPageExtTechAbilityIndex", 1, np, beyond) :
        np \in NextPageLists, beyond \in BeyondPages }

(* The received next pages are scanned for the extended technology ability *)
(* page; the return event also tells the indexes the scan has read         *)
fm10000AnGetNextPageExtTechAbilityIndex ==
    /\ AnFnPending("fm10000AnGetNextPageExtTechAbilityIndex")
    /\ LET r == AnGetNextPageExtTechAbilityIndex(trace[1].a,
                    portAttr[trace[1].port].autoNeg25GNxtPgOui, trace[1].b)
       IN  AnFnReturn([extTechAbIndex |-> r.extTechAbIndex, reads |-> r.reads],
                      r.status)
    /\ UNCHANGED <<mgmtVars, anVars, threadVars>>

(* The calls of the functions of the autonegotiation API that keep no     *)
(* state                                                                   *)
AnFnCalls ==
    ValidateBasePageCalls
    \cup HcdToEthModeCalls
    \cup GetTimeScaleCalls
    \cup GetMaxSpeedCalls
    \cup GetExtTechAbilityIndexCalls

(* One call of a function with its arguments *)
InitAnFn ==
    /\ cfg \in BusBoards
    /\ xcvrInfo = [p \in DOMAIN cfg.ports |-> ZeroRecord]
    /\ enableMgmt = FALSE
    /\ pc = "constructed"
    /\ list = <<>>
    /\ hwResIdList = <<>>
    /\ pos = 0
    /\ force = FALSE
    /\ last = Step("fmPlatformMgmtInit", -1, FALSE)
    /\ \E call \in AnFnCalls : trace = <<call>>
    /\ cfgCall = NoCall
    /\ ThreadInit
    /\ AnInit

NextAnFn ==
    \/ fm10000AnValidateBasePage
    \/ fm10000An73HcdToEthMode
    \/ fm10000AnGetTimeScale
    \/ fm10000AnGetMaxSpeedAbilityAndMode
    \/ fm10000AnGetNextPageExtTechAbilityIndex

SpecAnFn == InitAnFn /\ [][NextAnFn]_vars

(* Timeouts in milliseconds given to the link inhibit timer setters *)
LinkTimeouts == {0, 511, 512, 1023, 1024}

(* The API sets the link inhibit timer of a port *)
fm10000An73SetLinkInhibitTimer ==
    /\ \E port \in AnPorts, timeout \in LinkTimeouts,
          anTimerAllowOutSpec \in BOOLEAN :
          LET r == An73SetLinkInhibitTimer(portAttrExt[port], timeout,
                                           anTimerAllowOutSpec)
          IN  /\ portAttrExt' = [portAttrExt EXCEPT ![port] = r.ae]
              /\ trace' = <<CallEv("fm10000An73SetLinkInhibitTimer", port,
                                   timeout, anTimerAllowOutSpec),
                            Ev("return", port, "", <<>>, r.status)>>
              /\ last' = Step("fm10000An73SetLinkInhibitTimer", port, FALSE)
    /\ UNCHANGED <<mgmtVars, threadVars, portExt, portAttr>>

(* The API sets the link inhibit timer for 1000BASE-KX of a port *)
fm10000An73SetLinkInhibitTimerKx ==
    /\ \E port \in AnPorts, timeout \in LinkTimeouts,
          anTimerAllowOutSpec \in BOOLEAN :
          LET r == An73SetLinkInhibitTimerKx(portAttrExt[port], timeout,
                                             anTimerAllowOutSpec)
          IN  /\ portAttrExt' = [portAttrExt EXCEPT ![port] = r.ae]
              /\ trace' = <<CallEv("fm10000An73SetLinkInhibitTimerKx", port,
                                   timeout, anTimerAllowOutSpec),
                            Ev("return", port, "", <<>>, r.status)>>
              /\ last' = Step("fm10000An73SetLinkInhibitTimerKx", port, FALSE)
    /\ UNCHANGED <<mgmtVars, threadVars, portExt, portAttr>>

NextTimer ==
    \/ fm10000An73SetLinkInhibitTimer
    \/ fm10000An73SetLinkInhibitTimerKx

SpecTimer == InitAn /\ [][NextTimer]_vars

(* The variables the steps of the thread that call no sweep leave alone *)
sweepVars == <<cfg, xcvrInfo, enableMgmt, pc, list, hwResIdList, pos, force, last, trace,
               cfgCall, anVars>>

(* status = fmWaitSemaphore(&mgmtSem, &timeout): the semaphore is taken,   *)
(* or the wait times out when no signal is pending                         *)
ThreadWait ==
    /\ threadPc = "wait"
    /\ interruptFlag' = (mgmtSem # {})
    /\ iter' = NewIteration(mgmtSem)
    /\ mgmtSem' = {}
    /\ threadPc' = "enabled"
    /\ UNCHANGED <<sweepVars, pollingPendingTask, pollXcvrStatus, signalPc,
                   switchLock>>

(* if (!enableMgmt) continue; *)
ThreadEnabled ==
    /\ threadPc = "enabled"
    /\ threadPc' = IF enableMgmt THEN "lock" ELSE "wait"
    /\ UNCHANGED <<sweepVars, mgmtSem, pollingPendingTask, pollXcvrStatus,
                   interruptFlag, signalPc, switchLock, iter>>

(* fmPlatformMgmtTakeSwitchLock: the switch is protected, or the status    *)
(* tells that it is not up and it is left unprotected                      *)
ThreadTakeLock ==
    /\ threadPc = "lock"
    /\ \E status \in {FM_OK, FM_FAIL} :
          /\ switchLock' = (status = FM_OK)
          /\ iter' = [iter EXCEPT !.taken = IF status = FM_OK THEN @ + 1 ELSE @]
          /\ threadPc' = IF SwitchLockTaken(status) THEN "polling" ELSE "wait"
    /\ UNCHANGED <<sweepVars, mgmtSem, pollingPendingTask, pollXcvrStatus,
                   interruptFlag, signalPc>>

(* The test of the polling task; pollingPendingTask = FALSE *)
ThreadPolling ==
    /\ threadPc = "polling"
    /\ IF PollingTaskDue(interruptFlag, pollingPendingTask)
       THEN /\ pollingPendingTask' = FALSE
            /\ iter' = [iter EXCEPT !.cleared = TRUE]
            /\ threadPc' = "retryRead"
       ELSE /\ threadPc' = "update"
            /\ UNCHANGED <<pollingPendingTask, iter>>
    /\ UNCHANGED <<sweepVars, mgmtSem, pollXcvrStatus, interruptFlag, signalPc,
                   switchLock>>

(* XcvrRetryEepromRead(sw) *)
ThreadRetryEepromRead ==
    /\ threadPc = "retryRead"
    /\ pc = "idle"
    /\ \E rds \in PerPort(RetryReadDomain(0), RetryReadDomain(1),
                         RetryReadDomain(2), RetryReadDomain(3)) :
          LET r == IF libFunc.I2cWriteRead
                   THEN RetryEepromReadFrom([xi |-> xcvrInfo, tr |-> <<>>], 0, rds)
                   ELSE [xi |-> xcvrInfo, tr |-> <<>>]
          IN  /\ xcvrInfo' = r.xi
              /\ trace' = r.tr
    /\ last' = Step("XcvrRetryEepromRead", -1, FALSE)
    /\ iter' = [iter EXCEPT !.sweeps = Append(@, "XcvrRetryEepromRead")]
    /\ threadPc' = "retryConfig"
    /\ UNCHANGED <<cfg, enableMgmt, pc, list, hwResIdList, pos, force, cfgCall, anVars,
                   mgmtSem, pollingPendingTask, pollXcvrStatus, interruptFlag,
                   signalPc, switchLock>>

(* XcvrRetryConfig(sw) *)
ThreadRetryConfig ==
    /\ threadPc = "retryConfig"
    /\ pc = "idle"
    /\ \E ios \in PerPort(RetryConfigDomain(0), RetryConfigDomain(1),
                          RetryConfigDomain(2), RetryConfigDomain(3)) :
          LET r == IF libFunc.I2cWriteRead
                   THEN RetryConfigFrom([xi |-> xcvrInfo, tr |-> <<>>], 0, ios)
                   ELSE [xi |-> xcvrInfo, tr |-> <<>>]
          IN  /\ xcvrInfo' = r.xi
              /\ trace' = r.tr
    /\ last' = Step("XcvrRetryConfig", -1, FALSE)
    /\ iter' = [iter EXCEPT !.sweeps = Append(@, "XcvrRetryConfig")]
    /\ threadPc' = "update"
    /\ UNCHANGED <<cfg, enableMgmt, pc, list, hwResIdList, pos, force, cfgCall, anVars,
                   mgmtSem, pollingPendingTask, pollXcvrStatus, interruptFlag,
                   signalPc, switchLock>>

(* The test of the state sweep; XcvrUpdateState(sw, FALSE, interrupt) up   *)
(* to the end of its first loop iteration                                  *)
ThreadUpdateState ==
    /\ threadPc = "update"
    /\ pc = "idle"
    /\ IF UpdateStateDue(interruptFlag, pollXcvrStatus)
       THEN /\ UpdateStateCall(FALSE, interruptFlag)
            /\ iter' = [iter EXCEPT !.sweeps = Append(@, "XcvrUpdateState")]
            /\ UNCHANGED <<cfgCall, anVars>>
       ELSE UNCHANGED <<sweepVars, iter>>
    /\ threadPc' = "drop"
    /\ UNCHANGED <<mgmtSem, pollingPendingTask, pollXcvrStatus, interruptFlag,
                   signalPc, switchLock>>

(* The remaining loop iterations of the XcvrUpdateState the thread called *)
ThreadUpdateStateLoop ==
    /\ threadPc = "drop"
    /\ XcvrUpdateStateLoop

(* fmPlatformMgmtDropSwitchLock(sw), after the sweeps have returned *)
ThreadDropLock ==
    /\ threadPc = "drop"
    /\ pc = "idle"
    /\ switchLock' = FALSE
    /\ iter' = [iter EXCEPT !.dropped = @ + 1]
    /\ threadPc' = "wait"
    /\ UNCHANGED <<sweepVars, mgmtSem, pollingPendingTask, pollXcvrStatus,
                   interruptFlag, signalPc>>

(* fmPlatformMgmtSignalPollingThread, called once the switch is up:        *)
(* fmSignalSemaphore(&mgmtSem)                                             *)
SignalPollingThreadSem ==
    /\ signalPc = "idle"
    /\ enableMgmt
    /\ mgmtSem' = mgmtSem \cup {"fmPlatformMgmtSignalPollingThread"}
    /\ signalPc' = "signalled"
    /\ UNCHANGED <<sweepVars, pollingPendingTask, pollXcvrStatus, interruptFlag,
                   threadPc, switchLock, iter>>

(* fmPlatformMgmtSignalPollingThread: pollingPendingTask = TRUE *)
SignalPollingThreadFlag ==
    /\ signalPc = "signalled"
    /\ pollingPendingTask' = TRUE
    /\ signalPc' = "idle"
    /\ UNCHANGED <<sweepVars, mgmtSem, pollXcvrStatus, interruptFlag, threadPc,
                   switchLock, iter>>

(* fmPlatformMgmtSignalInterrupt: the GPIO interrupt is unmasked and the   *)
(* semaphore signalled                                                     *)
MgmtSignalInterrupt ==
    /\ ~pollXcvrStatus
    /\ enableMgmt
    /\ mgmtSem' = mgmtSem \cup {"fmPlatformMgmtSignalInterrupt"}
    /\ UNCHANGED <<sweepVars, pollingPendingTask, pollXcvrStatus, interruptFlag,
                   threadPc, signalPc, switchLock, iter>>

(* The remaining loop iterations of the XcvrUpdateState that               *)
(* fmPlatformMgmtEnableInterrupt called                                    *)
MgmtEnableInterruptLoop ==
    /\ threadPc # "drop"
    /\ XcvrUpdateStateLoop

(* The thread with the calls that bring the switch up and those that wake  *)
(* the thread                                                              *)
InitThread ==
    /\ cfg \in ThreadBoards
    /\ xcvrInfo = [p \in DOMAIN cfg.ports |-> ZeroRecord]
    /\ enableMgmt = FALSE
    /\ pc = "constructed"
    /\ list = <<>>
    /\ hwResIdList = <<>>
    /\ pos = 0
    /\ force = FALSE
    /\ last = Step("fmPlatformMgmtInit", -1, FALSE)
    /\ trace = <<>>
    /\ cfgCall = NoCall
    /\ AnInit
    /\ ThreadStart
    /\ pollXcvrStatus \in BOOLEAN

NextThread ==
    \/ MgmtXcvrInitialize
    \/ MgmtXcvrInitializeLoop
    \/ MgmtEnableInterrupt
    \/ MgmtEnableInterruptLoop
    \/ ThreadWait
    \/ ThreadEnabled
    \/ ThreadTakeLock
    \/ ThreadPolling
    \/ ThreadRetryEepromRead
    \/ ThreadRetryConfig
    \/ ThreadUpdateState
    \/ ThreadUpdateStateLoop
    \/ ThreadDropLock
    \/ SignalPollingThreadSem
    \/ SignalPollingThreadFlag
    \/ MgmtSignalInterrupt

SpecThread == InitThread /\ [][NextThread]_vars

TypeOK ==
    /\ pc \in {"constructed", "init", "idle", "update",
               "config", "configure", "configured"}
    /\ \A p \in PortIdxs :
        /\ xcvrInfo[p].eeprom \in EepromImages
        /\ xcvrInfo[p].modState \subseteq XcvrBits

----------------------------------------------------------------------------
(* Properties *)

(* The calls in tr that match op on the logical port of portIdx *)
CallsIn(tr, op, portIdx) ==
    { i \in DOMAIN tr : tr[i].op = op /\ tr[i].port = cfg.ports[portIdx].port }

(* The calls of the last step *)
Calls(op, portIdx) == CallsIn(trace, op, portIdx)

Initialized == pc # "constructed"

(* C1: once mgmt_xcvr_initialize has run, and after any number of          *)
(* update-state sweeps with arbitrary valid masks and state words, a       *)
(* record's present flag is TRUE exactly when the PRESENT bit of its       *)
(* stored mod_state is set.                                                *)
C1_PresentMirrorsModState ==
    Initialized =>
        \A p \in PortIdxs :
            xcvrInfo[p].present <=> ("PRESENT" \in xcvrInfo[p].modState)

(* C2: at every sweep boundary a port that is not present (flag and      *)
(* PRESENT bit both clear, so that the case is apart from C1) has a        *)
(* cached EEPROM that is entirely 0xFF, type NOT_PRESENT and cable length  *)
(* 0: after a removal from any port, that port's own cache is wiped.       *)
C2_AbsentRecordIsBlank ==
    (Initialized /\ pc = "idle") =>
        \A p \in PortIdxs :
            (~xcvrInfo[p].present /\ "PRESENT" \notin xcvrInfo[p].modState) =>
                /\ xcvrInfo[p].eeprom = "FF"
                /\ xcvrInfo[p].type = "NOT_PRESENT"
                /\ xcvrInfo[p].cableLength = 0

(* C3: a record whose eeprom_base_valid is TRUE has a type that was read   *)
(* from its EEPROM, never UNKNOWN: a failed first read that sets the type  *)
(* to UNKNOWN does not leave eeprom_base_valid TRUE.                       *)
C3_BaseValidHasType ==
    Initialized =>
        \A p \in PortIdxs :
            xcvrInfo[p].eepromBaseValid => xcvrInfo[p].type # "UNKNOWN"

CountersInRange ==
    \A p \in PortIdxs :
        /\ xcvrInfo[p].eepromReadRetries \in 0..MAX_EEPROM_READ_RETRY
        /\ xcvrInfo[p].configRetries \in 0..MAX_CONFIG_RETRY

PresenceChangedTo(portIdx, present) ==
    /\ last.op = "XcvrUpdateState"
    /\ \E i \in Calls("PresenceChanged", portIdx) : trace[i].a = present

(* C5: when update-state detects a valid PRESENT change on a port, here    *)
(* PRESENT to not-PRESENT, the port's eeprom_read_retries and              *)
(* config_retries are 0 after the pass, its EEPROM cache is all 0xFF, its  *)
(* type is NOT_PRESENT and the notification is made.                       *)
C5_RemovalWipesPort ==
    \A p \in PortIdxs :
        PresenceChangedTo(p, FALSE) =>
            /\ xcvrInfo[p].eepromReadRetries = 0
            /\ xcvrInfo[p].configRetries = 0
            /\ xcvrInfo[p].eeprom = "FF"
            /\ xcvrInfo[p].type = "NOT_PRESENT"
            /\ Calls("EventSendPortXcvrState", p) # {}

(* The last step was an update-state entry whose first-attempt EEPROM read *)
(* of portIdx failed                                                       *)
FirstReadFailed(portIdx) ==
    /\ last.op = "XcvrUpdateState"
    /\ \E i \in Calls("XcvrEepromRead", portIdx) :
          trace[i].a = "first" /\ trace[i].status = FM_FAIL

(* C6 as stated: when the first read after a module became present and     *)
(* enabled fails, eeprom_read_retries is 4 and neither the API-level nor   *)
(* the application-level notification is emitted in that pass.             *)
C6_FailedReadIsSilent ==
    \A p \in PortIdxs :
        FirstReadFailed(p) =>
            /\ xcvrInfo[p].eepromReadRetries = 4
            /\ \A i \in DOMAIN trace :
                  trace[i].op \notin {"NotifyXcvrChange", "EventSendPortXcvrState"}

(* C6, amended: when the first read after a module became present and      *)
(* enabled fails, eeprom_read_retries is set to MAX_EEPROM_READ_RETRY (4), *)
(* neither the SerDes update nor the module configuration runs, and the    *)
(* pass still notifies: the application-level event once, the API-level    *)
(* one once unless the port's Ethernet mode is DISABLED.                   *)
C6_FailedReadArmsRetry ==
    \A p \in PortIdxs :
        (FirstReadFailed(p) /\ cfg.ports[p].intfType = "SFPP") =>
            /\ xcvrInfo[p].eepromReadRetries = MAX_EEPROM_READ_RETRY
            /\ MAX_EEPROM_READ_RETRY = 4
            /\ \A i \in DOMAIN trace :
                  trace[i].op \notin {"UpdateSerdesSettings", "ConfigureSfppXcvr"}
            /\ Cardinality(Calls("EventSendPortXcvrState", p)) = 1
            /\ Cardinality(Calls("NotifyXcvrChange", p))
                  = IF xcvrInfo[p].ethMode # "DISABLED" THEN 1 ELSE 0

(* C6 witness: a first read failed on a port whose Ethernet mode is set,   *)
(* and both notifications were made                                        *)
C6_Witness ==
    \E p \in PortIdxs :
        /\ FirstReadFailed(p)
        /\ xcvrInfo[p].ethMode # "DISABLED"
        /\ Calls("NotifyXcvrChange", p) # {}
        /\ Calls("EventSendPortXcvrState", p) # {}

(* Every EEPROM read of an update-state entry follows a valid PRESENT or   *)
(* ENABLE change of that port, and the configuration steps read nothing    *)
ReadsFollowChange ==
    \A p \in PortIdxs :
        Calls("XcvrEepromRead", p) # {} =>
            \/ last.op \in {"fmPlatformMgmtXcvrInitialize", "XcvrRetryEepromRead"}
            \/ /\ last.op = "XcvrUpdateState"
               /\ Calls("PresenceChanged", p) \cup Calls("EnableChanged", p) # {}

(* One retry-eeprom-read sweep, seen from port p *)
RetryReadStep(p) ==
    LET n      == xcvrInfo[p].eepromReadRetries
        n2     == xcvrInfo'[p].eepromReadRetries
        reads  == CallsIn(trace', "XcvrEepromRead", p)
        serdes == CallsIn(trace', "UpdateSerdesSettings", p)
    IN  IF IsXcvrIntf(p) /\ n > 0
        THEN /\ Cardinality(reads) = 1
             /\ \A i \in reads :
                  /\ trace'[i].a = "retry"
                  /\ IF trace'[i].status = FM_OK
                     THEN n2 = 0 /\ Cardinality(serdes) = 1
                     ELSE /\ n2 = n - 1
                          /\ serdes = {}
                          /\ xcvrInfo'[p].type = xcvrInfo[p].type
        ELSE reads = {} /\ serdes = {} /\ n2 = n

C8_AnEnabledFollowsPhy ==
    \A p \in PortIdxs :
        \A i \in Calls("PhyEnable1000BaseTAutoNeg", p) :
            trace[i].status = FM_OK => xcvrInfo[p].anEnabled = trace[i].a

(* The rate byte of a port: 0x00 in a 1G mode, 0x08 otherwise *)
RateByte(ethMode) ==
    IF ethMode \in {"DISABLED", "SGMII", "1000BASE_X", "1000BASE_KX"} THEN 0 ELSE 8

(* C9: for an enabled SFP+ port with a dual-rate module, every             *)
(* configure_sfpp_xcvr call that returns OK has written the same rate byte *)
(* at offsets 110 and 118 (0x00 when eth_mode is DISABLED, SGMII,          *)
(* 1000BASE_X or 1000BASE_KX, 0x08 otherwise); a write that fails is the   *)
(* last one and configure returns its failure.                             *)
C9_DualRateWritesBoth ==
    \A p \in PortIdxs :
        (IsSfppModuleDualRate(xcvrInfo[p]) /\ "ENABLE" \in xcvrInfo[p].modState) =>
            LET port == cfg.ports[p].port
                data == RateByte(xcvrInfo[p].ethMode)
            IN  /\ \A i \in Calls("ConfigureSfppXcvr", p) :
                     trace[i].status = FM_OK =>
                        /\ i > 2
                        /\ trace[i - 2] = Ev("XcvrMemWrite", port, 110, data, FM_OK)
                        /\ trace[i - 1] = Ev("XcvrMemWrite", port, 118, data, FM_OK)
                /\ \A j \in Calls("XcvrMemWrite", p) :
                     trace[j].status # FM_OK =>
                        /\ j + 1 \in DOMAIN trace
                        /\ trace[j + 1] = Ev("ConfigureSfppXcvr", port, 0, 0,
                                             trace[j].status)

(* C9 witness: a configuration of a dual-rate module on a 1000BASE_KX port *)
(* returned OK                                                             *)
C9_Witness ==
    \E p \in PortIdxs :
        /\ IsSfppModuleDualRate(xcvrInfo[p])
        /\ "ENABLE" \in xcvrInfo[p].modState
        /\ xcvrInfo[p].ethMode = "1000BASE_KX"
        /\ \E i \in Calls("ConfigureSfppXcvr", p) : trace[i].status = FM_OK
        /\ \E j \in Calls("XcvrMemWrite", p) : trace[j].a = 118 /\ trace[j].b = 0

(* The last step was an update-state entry for portIdx that notifies:      *)
(* forced, or with a valid change of a bit other than INTR                 *)
Notifies(portIdx) ==
    /\ last.op = "XcvrUpdateState"
    /\ last.portIdx = portIdx
    /\ \/ last.force
       \/ \E op \in {"PresenceChanged", "EnableChanged",
                     "RxlosChanged", "TxfaultChanged"} : Calls(op, portIdx) # {}

(* The defined lane-ports of the EPL of portIdx *)
LanePorts(portIdx) ==
    { cfg.epls[cfg.ports[portIdx].epl].laneToPortIdx[lane] : lane \in 0..3 }
        \ {FM_PLAT_UNDEFINED}

(* C10: when update-state notifies for a QSFP_LANE0 port in a single-lane  *)
(* mode, the API-level notification is made exactly once for each defined  *)
(* lane-port of the EPL whose own eth_mode is not DISABLED and for no      *)
(* other port, and the application-level event exactly once.               *)
C10_SingleLaneFanOut ==
    \A p \in PortIdxs :
        (/\ Notifies(p)
         /\ cfg.ports[p].intfType = "QSFP_LANE0"
         /\ ~IsMultiLane(xcvrInfo[p].ethMode)) =>
            /\ \A q \in PortIdxs :
                  Cardinality(Calls("NotifyXcvrChange", q))
                     = IF q \in LanePorts(p) /\ xcvrInfo[q].ethMode # "DISABLED"
                       THEN 1 ELSE 0
            /\ \A i \in DOMAIN trace :
                  trace[i].op = "NotifyXcvrChange" =>
                     \E q \in LanePorts(p) : trace[i].port = cfg.ports[q].port
            /\ Cardinality({ i \in DOMAIN trace :
                               trace[i].op = "EventSendPortXcvrState" }) = 1
            /\ Cardinality(Calls("EventSendPortXcvrState", p)) = 1

(* C10 witness: a notification for a single-lane QSFP_LANE0 port, one of   *)
(* whose three lane-ports is DISABLED: two API-level notifications         *)
C10_Witness ==
    \E p \in PortIdxs :
        /\ Notifies(p)
        /\ cfg.ports[p].intfType = "QSFP_LANE0"
        /\ ~IsMultiLane(xcvrInfo[p].ethMode)
        /\ Cardinality(LanePorts(p)) = 3
        /\ \E q \in LanePorts(p) : xcvrInfo[q].ethMode = "DISABLED"
        /\ Cardinality({ i \in DOMAIN trace : trace[i].op = "NotifyXcvrChange" }) = 2

(* C11: the management task makes no retry-eeprom-read, retry-config or    *)
(* update-state sweep while enable_mgmt is FALSE, and enable_mgmt becomes  *)
(* TRUE only when the forced update-state sweep of mgmt_enable_interrupt   *)
(* has processed its last entry.                                           *)
C11_SweepsGatedByEnable ==
    [][/\ (\/ last'.op \in {"XcvrRetryEepromRead", "XcvrRetryConfig"}
           \/ last'.op = "XcvrUpdateState" /\ ~last'.force /\ pc = "idle")
          => enableMgmt
       /\ (~enableMgmt /\ enableMgmt')
          => /\ last'.op = "XcvrUpdateState"
             /\ last'.force
             /\ pc' = "idle"
             /\ (pc = "update" => pos = Len(list))
      ]_vars

(* C11 witness: a retry sweep of the management task, made after the       *)
(* forced sweep enabled the management                                     *)
C11_Witness ==
    /\ enableMgmt
    /\ last.op = "XcvrRetryEepromRead"
    /\ \E p \in PortIdxs : Calls("XcvrEepromRead", p) # {}

(* The I2C bus lock after the first i calls of the last step: the number   *)
(* of acquisitions less the number of releases                             *)
LockHeld(i) ==
    Cardinality({ j \in 1..i : trace[j] = TakeLock })
        - Cardinality({ j \in 1..i : trace[j] = DropLock })

(* C12: in update-state and in mgmt_xcvr_initialize every acquisition of   *)
(* the I2C bus lock is followed by exactly one release on every exit path, *)
(* SelectBus and state-query failures included, and the lock is not held   *)
(* when the operation returns; the bus is selected and queried under the   *)
(* lock.                                                                   *)
C12_BusLockReleased ==
    last.op \in {"XcvrUpdateState", "fmPlatformMgmtXcvrInitialize"} =>
        /\ \A i \in DOMAIN trace :
              /\ LockHeld(i) \in {0, 1}
              /\ trace[i].op \in {"SelectBus", "GetPortXcvrState", "GetPortIntrPending"}
                    => LockHeld(i) = 1
        /\ LockHeld(Len(trace)) = 0

(* C12 witness: mgmt_xcvr_initialize returned on a SelectBus failure,      *)
(* having taken and released the lock                                      *)
C12_Witness ==
    /\ last.op = "fmPlatformMgmtXcvrInitialize"
    /\ pc = "idle"
    /\ \E i \in DOMAIN trace : trace[i].op = "SelectBus" /\ trace[i].status = FM_FAIL
    /\ \E i \in DOMAIN trace : trace[i] = DropLock

(* The stores and the return of the last call of                           *)
(* fmPlatformMgmtGetTransceiverType                                        *)
Stored(op) == { <<trace[i].a, trace[i].b>> : i \in { j \in DOMAIN trace : trace[j].op = op } }

Returned == { trace[i].status : i \in { j \in DOMAIN trace : trace[j].op = "return" } }

(* C13: mgmt_get_transceiver_type on a QSFP_LANE1, QSFP_LANE2 or           *)
(* QSFP_LANE3 port returns the type and cable length of the record of the  *)
(* port index mapped to lane 0 of the same EPL; on any other valid port it *)
(* returns the port's own record; for a port without port index it returns *)
(* InvalidPort and writes no output.                                       *)
C13_LaneRedirect ==
    last.op = "fmPlatformMgmtGetTransceiverType" =>
        IF last.portIdx < 0
        THEN /\ Returned = {"FM_ERR_INVALID_PORT"}
             /\ Stored("*xcvrType") = {} /\ Stored("*xcvrLen") = {}
        ELSE LET pcfg == cfg.ports[last.portIdx]
                 src  == IF pcfg.intfType \in {"QSFP_LANE1", "QSFP_LANE2", "QSFP_LANE3"}
                         THEN cfg.epls[pcfg.epl].laneToPortIdx[0]
                         ELSE last.portIdx
             IN /\ Returned = {FM_OK}
                /\ Stored("*xcvrType") = {<<xcvrInfo[src].type, 0>>}
                /\ Stored("*xcvrLen") = {<<"", xcvrInfo[src].cableLength>>}

(* C13 witness: a query on a QSFP_LANE1 port returned the type and length  *)
(* that the lane-0 port read from the module, which the lane-1 port's own  *)
(* record does not hold                                                    *)
C13_Witness ==
    /\ last.op = "fmPlatformMgmtGetTransceiverType"
    /\ last.portIdx >= 0
    /\ cfg.ports[last.portIdx].intfType = "QSFP_LANE1"
    /\ \E t \in Stored("*xcvrType") : t[1] # xcvrInfo[last.portIdx].type
    /\ \E t \in Stored("*xcvrLen") : t[2] # xcvrInfo[last.portIdx].cableLength

(* C14: with polling enabled, the config_retries = MAX_CONFIG_RETRY that  *)
(* mgmt_notify_eth_mode_change schedules on an SFP+ port with a present,   *)
(* enabled module and a valid base checksum is not lost to a retry-config  *)
(* sweep that runs concurrently: the sweep does not zero the counter       *)
(* unless the configure_sfpp_xcvr it invoked read the new eth_mode, so     *)
(* that the mgmt task still has the configuration with the new mode to do. *)
C14_ScheduledConfigNotLost ==
    [][(/\ pc = "configured"
        /\ cfg.xcvrPollPeriodMsec # 0
        /\ last.op = "fmPlatformMgmtNotifyEthModeChange"
        /\ last.portIdx = pos
        /\ xcvrInfo[pos].present /\ "ENABLE" \in xcvrInfo[pos].modState
        /\ xcvrInfo[pos].eepromBaseValid
        /\ xcvrInfo[pos].configRetries = MAX_CONFIG_RETRY
        /\ cfgCall.ethMode # xcvrInfo[pos].ethMode)
       => xcvrInfo'[pos].configRetries > 0]_vars

(* The events that the last step sent to the AN state machine of a port *)
AnDelivered ==
    SelectSeq(trace, LAMBDA e : e.op = "fmNotifyStateMachineEvent"
                                /\ e.b[1] = "anSmHandle")

(* The last step is an fm10000AnEventHandler call for a port bound to the  *)
(* state machine type smType                                               *)
AnHandledFor(smType) ==
    /\ last.op = "fm10000AnEventHandler"
    /\ last.portIdx >= 0
    /\ portExt[last.portIdx].anSmType = smType

(* The events of order whose bit is in the pending mask of the last call *)
AnPending(order) == SelectSeq(order, LAMBDA x : x[1] \in trace[1].b)

(* The events delivered are those of want, in order and one each, up to    *)
(* the first whose delivery fails                                          *)
AnDeliveredInOrder(want, smType) ==
    LET got == AnDelivered IN
    /\ Len(got) <= Len(want)
    /\ \A i \in 1..Len(got) :
          /\ got[i].a = want[i][2]
          /\ got[i].b = <<"anSmHandle", smType>>
          /\ got[i].port = last.portIdx
          /\ i < Len(got) => got[i].status = FM_OK
    /\ Len(got) < Len(want) => Len(got) > 0 /\ got[Len(got)].status # FM_OK

(* C15: for a port bound to the C73 state machine, one an_event_handler    *)
(* call with pending mask M delivers exactly one event per bit of M among  *)
(* AbilityDetect, AcknowledgeDetect, CompleteAcknowledge, NextPageWait,    *)
(* AnGoodCheck, AnGood, TransmitDisable, in that order, and stops at the   *)
(* first delivery that returns a non-OK status.                            *)
C15_Clause73EventOrder ==
    AnHandledFor(FM10000_CLAUSE73_AN_STATE_MACHINE) =>
        AnDeliveredInOrder(
            AnPending(<< <<"An73AbilityDetect", "FM10000_AN_EVENT_ABILITY_DETECT_IND">>,
                         <<"An73AcknowledgeDetect", "FM10000_AN_EVENT_ACK_DETECT_IND">>,
                         <<"An73CompleteAcknowledge", "FM10000_AN_EVENT_COMPLETE_ACK_IND">>,
                         <<"An73NextPageWait", "FM10000_AN_EVENT_NEXT_PAGE_WAIT_IND">>,
                         <<"An73AnGoodCheck", "FM10000_AN_EVENT_GOOD_CHECK_IND">>,
                         <<"An73AnGood", "FM10000_AN_EVENT_GOOD_IND">>,
                         <<"An73TransmitDisable", "FM10000_AN_EVENT_TRANSMIT_DISABLE_IND">> >>),
            FM10000_CLAUSE73_AN_STATE_MACHINE)

(* C15 witness: AbilityDetect, AcknowledgeDetect and AnGood pending on a   *)
(* C73 port gave those three events in that order                          *)
C15_Witness ==
    /\ AnHandledFor(FM10000_CLAUSE73_AN_STATE_MACHINE)
    /\ trace[1].b = {"An73AbilityDetect", "An73AcknowledgeDetect", "An73AnGood"}
    /\ Len(AnDelivered) = 3
    /\ AnDelivered[1].a = "FM10000_AN_EVENT_ABILITY_DETECT_IND"
    /\ AnDelivered[2].a = "FM10000_AN_EVENT_ACK_DETECT_IND"
    /\ AnDelivered[3].a = "FM10000_AN_EVENT_GOOD_IND"

(* C16: for a port bound to the C37 state machine, one an_event_handler    *)
(* call with pending mask M delivers exactly one event per bit of M among  *)
(* AnEnable, AnRestart, DisableLinkOk, AbilityDetect, CompleteAcknowledge, *)
(* NextPageWait, IdleDetect, LinkOk, in that order, stopping at the first  *)
(* non-OK delivery; NextPageWait is delivered as GOOD_CHECK_IND.           *)
C16_Clause37EventOrder ==
    AnHandledFor(FM10000_CLAUSE37_AN_STATE_MACHINE) =>
        AnDeliveredInOrder(
            AnPending(<< <<"An37AnEnable", "FM10000_AN_EVENT_ENABLE_IND">>,
                         <<"An37AnRestart", "FM10000_AN_EVENT_RESTART_IND">>,
                         <<"An37AnDisableLinkOk", "FM10000_AN_EVENT_DISABLE_LINK_OK_IND">>,
                         <<"An37AbilityDetect", "FM10000_AN_EVENT_ABILITY_DETECT_IND">>,
                         <<"An37CompleteAcknowledge", "FM10000_AN_EVENT_COMPLETE_ACK_IND">>,
                         <<"An37NextPageWait", "FM10000_AN_EVENT_GOOD_CHECK_IND">>,
                         <<"An37IdleDetect", "FM10000_AN_EVENT_IDLE_DETECT_IND">>,
                         <<"An37LinkOk", "FM10000_AN_EVENT_LINK_OK_IND">> >>),
            FM10000_CLAUSE37_AN_STATE_MACHINE)

(* C16 witness: CompleteAcknowledge and NextPageWait pending on a C37 port *)
(* gave COMPLETE_ACK_IND and then GOOD_CHECK_IND                           *)
C16_Witness ==
    /\ AnHandledFor(FM10000_CLAUSE37_AN_STATE_MACHINE)
    /\ trace[1].b = {"An37CompleteAcknowledge", "An37NextPageWait"}
    /\ Len(AnDelivered) = 2
    /\ AnDelivered[1].a = "FM10000_AN_EVENT_COMPLETE_ACK_IND"
    /\ AnDelivered[2].a = "FM10000_AN_EVENT_GOOD_CHECK_IND"
    /\ AnDelivered[2].status = FM_OK

(* The positions of the MaskUINT32 calls of the last step *)
AnMaskCalls == { i \in DOMAIN trace : trace[i].op = "MaskUINT32" }

(* C17: every an_event_handler call unmasks exactly the bits of the        *)
(* received an_ip mask in the AN interrupt mask register of the lane       *)
(* before it returns, on every path: mapping failure, no lane or no parent *)
(* port, port bound to no AN state machine, chain completed, chain aborted *)
(* by a non-OK delivery.                                                   *)
C17_MaskRearmed ==
    last.op = "fm10000AnEventHandler" =>
        /\ AnMaskCalls = {Len(trace)}
        /\ trace[Len(trace)].a = <<"FM10000_AN_IM", trace[1].a[1], trace[1].a[2]>>
        /\ trace[Len(trace)].b = [mask |-> trace[1].b, on |-> FALSE]

(* C17 witness: the chain was aborted by the failure of the second         *)
(* delivery and the mask was re-armed                                      *)
C17_Witness ==
    /\ last.op = "fm10000AnEventHandler"
    /\ Len(AnDelivered) = 2
    /\ AnDelivered[2].status # FM_OK
    /\ Cardinality(trace[1].b) > 2
    /\ AnMaskCalls = {Len(trace)}

(* The arguments of the fm10000AnRestartOnNewConfig call that a step makes *)
(* (read in the state after the step): the port, the ethernet mode and the *)
(* configuration asked for                                                 *)
AnRestarted(port, ethMode, c) ==
    /\ last'.op = "fm10000AnRestartOnNewConfig"
    /\ last'.portIdx = port
    /\ trace'[1].a = ethMode
    /\ trace'[1].b = c

(* What the call did between its entry and its return: each call without   *)
(* the status it returned                                                  *)
AnRestartCalls ==
    [i \in 1..(Len(trace') - 2) |->
        <<trace'[i + 1].op, trace'[i + 1].a, trace'[i + 1].b>>]

(* The status that starting the state machine returned, FM_OK if it was    *)
(* not started                                                             *)
AnStartStatus ==
    IF \E i \in DOMAIN trace' : trace'[i].op = "fmStartStateMachine"
    THEN (trace'[CHOOSE i \in DOMAIN trace' : trace'[i].op = "fmStartStateMachine"]).status
    ELSE FM_OK

(* The readiness of the specification: Clause 73 needs AN_73, Clause 37    *)
(* and SGMII need 1000BASE_X or SGMII                                      *)
AnModeReady(ethMode, anMode) ==
    \/ anMode = "CLAUSE_73" /\ ethMode = "AN_73"
    \/ anMode \in {"CLAUSE_37", "SGMII"} /\ ethMode \in {"1000BASE_X", "SGMII"}

(* C18: if the port is not ready for the requested mode (CLAUSE_73 with an *)
(* eth_mode other than AN_73; CLAUSE_37 or SGMII with an eth_mode that is  *)
(* neither 1000BASE_X nor SGMII; or another an_mode),                      *)
(* an_restart_on_new_config sends no event, stops and starts no state      *)
(* machine and leaves an_sm_type and an_interrupt_mask unchanged.          *)
C18_NotReadyTouchesNothing ==
    [][\A port \in AnPorts, ethMode \in AnEthModes, c \in AnConfigs :
          (AnRestarted(port, ethMode, c) /\ ~AnModeReady(ethMode, c.autoNegMode))
          => /\ AnRestartCalls = <<>>
             /\ portExt' = portExt]_vars

(* C18 witness: a Clause 73 request with eth mode 1000BASE_X on a port     *)
(* bound to the C37 state machine returned without a call                  *)
C18_Witness ==
    /\ last.op = "fm10000AnRestartOnNewConfig"
    /\ last.portIdx = 1
    /\ trace[1].a = "1000BASE_X"
    /\ trace[1].b.autoNegMode = "CLAUSE_73"
    /\ portExt[1].anSmType = FM10000_CLAUSE37_AN_STATE_MACHINE
    /\ portExt[1].anSm.running
    /\ Len(trace) = 2

(* The state machine type the specification derives from an_mode *)
AnExpectedSmType(anMode) ==
    IF anMode = "CLAUSE_73" THEN FM10000_CLAUSE73_AN_STATE_MACHINE
    ELSE FM10000_CLAUSE37_AN_STATE_MACHINE

AnTemplate(anMode) ==
    IF anMode = "CLAUSE_73" THEN FM10000_AN73_INT_MASK ELSE FM10000_AN37_INT_MASK

(* The disable request with the old configuration and the stop, when the   *)
(* port is bound to a real state machine of another type                   *)
AnExpectedStop(port, c) ==
    IF /\ AnExpectedSmType(c.autoNegMode) # portExt[port].anSmType
       /\ portExt[port].anSmType # FM_SMTYPE_UNSPECIFIED
    THEN << <<"fmNotifyStateMachineEvent", "FM10000_PORT_EVENT_AN_DISABLE_REQ",
              <<"smHandle", portAttr[port].autoNegMode, portAttr[port].autoNegBasePage,
                portAttr[port].autoNegNextPages>> >>,
            <<"fmStopStateMachine", "anSmHandle", <<>> >> >>
    ELSE <<>>

AnExpectedStart(port, c) ==
    IF AnExpectedSmType(c.autoNegMode) # portExt[port].anSmType
    THEN << <<"fmStartStateMachine", AnExpectedSmType(c.autoNegMode),
              <<"FM10000_AN_STATE_DISABLED">> >> >>
    ELSE <<>>

AnExpectedConfig(c) ==
    << <<"fmNotifyStateMachineEvent", "FM10000_PORT_EVENT_AN_CONFIG_REQ",
         <<"smHandle", c.autoNegMode, c.autoNegBasePage, c.autoNegNextPages>> >> >>

(* The whole sequence of a ready call and the state it leaves *)
AnSwitched(port, c) ==
    /\ AnRestartCalls = AnExpectedStop(port, c) \o AnExpectedStart(port, c)
                         \o AnExpectedConfig(c)
    /\ portExt'[port].anSmType = AnExpectedSmType(c.autoNegMode)
    /\ portExt'[port].anInterruptMask = AnTemplate(c.autoNegMode)
    /\ AnExpectedStart(port, c) # <<>> =>
          portExt'[port].anSm = AnSmStarted(AnExpectedSmType(c.autoNegMode))
    /\ AnExpectedStart(port, c) = <<>> => portExt'[port].anSm = portExt[port].anSm

(* C19: a ready an_restart_on_new_config call performs, in this order: if  *)
(* the expected SM type differs from the bound one and the bound one is a  *)
(* real SM, one AN_DISABLE_REQ with the port's old mode, base page and     *)
(* next pages, then the stop of the current SM; if the types differ, the   *)
(* start of a new SM in state DISABLED and the record of the new           *)
(* an_sm_type; the an_interrupt_mask set to the template of the new mode;  *)
(* and exactly one AN_CONFIG_REQ with the new configuration.  With equal   *)
(* types there is no DISABLE, stop or start.                               *)
C19_RestartSequence ==
    [][\A ethMode \in AnEthModes, c \in AnConfigs :
          (AnRestarted(1, ethMode, c) /\ AnModeReady(ethMode, c.autoNegMode))
          => AnSwitched(1, c)]_vars

(* C19 as the code has it: the sequence is performed when the start of the *)
(* new SM succeeds; when it fails, the call returns after the DISABLE,     *)
(* the stop and the failed start, with an_sm_type and an_interrupt_mask    *)
(* as they were and no AN_CONFIG_REQ.                                      *)
C19_RestartSequenceIfStarted ==
    [][\A ethMode \in AnEthModes, c \in AnConfigs :
          (AnRestarted(1, ethMode, c) /\ AnModeReady(ethMode, c.autoNegMode))
          => IF AnStartStatus = FM_OK
             THEN AnSwitched(1, c)
             ELSE /\ AnRestartCalls = AnExpectedStop(1, c) \o AnExpectedStart(1, c)
                  /\ portExt'[1].anSmType = portExt[1].anSmType
                  /\ portExt'[1].anInterruptMask = portExt[1].anInterruptMask]_vars

(* C19 witness: a port bound to C73 was switched to Clause 37: disable     *)
(* request with the old configuration, stop, start, AN_CONFIG_REQ          *)
C19_Witness ==
    /\ last.op = "fm10000AnRestartOnNewConfig"
    /\ last.portIdx = 1
    /\ Len(trace) = 6
    /\ trace[2].a = "FM10000_PORT_EVENT_AN_DISABLE_REQ"
    /\ trace[2].b[2] = "CLAUSE_73"
    /\ trace[3].op = "fmStopStateMachine"
    /\ trace[4].op = "fmStartStateMachine" /\ trace[4].status = FM_OK
    /\ trace[5].a = "FM10000_PORT_EVENT_AN_CONFIG_REQ"
    /\ trace[5].b[2] = "CLAUSE_37"
    /\ portExt[1].anSmType = FM10000_CLAUSE37_AN_STATE_MACHINE
    /\ portExt[1].anInterruptMask = FM10000_AN37_INT_MASK

(* C20: after any sequence of an_restart_on_new_config calls, once the     *)
(* port is bound to a real SM its an_interrupt_mask is the C73 template    *)
(* if and only if an_sm_type is C73, and the C37 template if and only if   *)
(* an_sm_type is C37.                                                      *)
C20_MaskMatchesSmType ==
    \A port \in AnPorts :
        portExt[port].anSmType # FM_SMTYPE_UNSPECIFIED =>
            /\ portExt[port].anInterruptMask = FM10000_AN73_INT_MASK
                  <=> portExt[port].anSmType = FM10000_CLAUSE73_AN_STATE_MACHINE
            /\ portExt[port].anInterruptMask = FM10000_AN37_INT_MASK
                  <=> portExt[port].anSmType = FM10000_CLAUSE37_AN_STATE_MACHINE

(* C20 witness: a switch from Clause 73 to SGMII failed to start the new   *)
(* SM and left the port bound to C73 with the C73 mask                     *)
C20_Witness ==
    /\ last.op = "fm10000AnRestartOnNewConfig"
    /\ last.portIdx = 1
    /\ trace[1].b.autoNegMode = "SGMII"
    /\ \E i \in DOMAIN trace : trace[i].op = "fmStartStateMachine"
                                /\ trace[i].status # FM_OK
    /\ portExt[1].anSmType = FM10000_CLAUSE73_AN_STATE_MACHINE
    /\ portExt[1].anInterruptMask = FM10000_AN73_INT_MASK

(* The last step was a call of fm10000AnAddNextPage on port *)
AddedNextPage(port) ==
    /\ last.op = "fm10000AnAddNextPage"
    /\ last.portIdx = port

(* The words stored in the next-page list np, in order *)
StoredPages(np) ==
    IF np.nextPages = NullPages THEN <<>>
    ELSE [i \in 1..np.numPages |-> np.nextPages[i]]

(* w with its NP bit set *)
WithNP(w) == OrBit(w, FM10000_AN_73_NEXT_PAGE_TX_b_NP)

(* C21: after any sequence of an_add_next_page calls on a port starting    *)
(* from an empty list, every stored next-page word except the last has its *)
(* NP bit set, the stored pages appear in call order (a successful call    *)
(* appends its word after the words of the earlier calls, which keep their *)
(* places), and the page count never exceeds MAX_NUM_NEXTPAGES: a call on  *)
(* a full list returns NoFreeResources and changes nothing.                *)
C21_NextPageList ==
    [][\A port \in AnPorts :
          LET old == StoredPages(portAttr[port].autoNegNextPages)
              new == StoredPages(portAttr'[port].autoNegNextPages)
          IN  /\ Len(new) <= MAX_NUM_NEXTPAGES
              /\ \A i \in 1..(Len(new) - 1) :
                    BitOf(new[i], FM10000_AN_73_NEXT_PAGE_TX_b_NP) = 1
              /\ AddedNextPage(port)' =>
                    /\ trace'[2].status = FM_OK =>
                          /\ Len(new) = Len(old) + 1
                          /\ new[Len(new)] = trace'[1].a
                          /\ \A i \in 1..Len(old) :
                                new[i] = WithNP(old[i])
                    /\ Len(old) = MAX_NUM_NEXTPAGES =>
                          /\ trace'[2].status = FM_ERR_NO_FREE_RESOURCES
                          /\ portAttr'[port] = portAttr[port]
              /\ ~AddedNextPage(port)' => new = old]_vars

(* A call on a full list whose stored words were given without the NP bit  *)
C21_Witness ==
    /\ AddedNextPage(1)
    /\ trace[2].status = FM_ERR_NO_FREE_RESOURCES
    /\ portAttr[1].autoNegNextPages.numPages = MAX_NUM_NEXTPAGES
    /\ StoredPages(portAttr[1].autoNegNextPages) =
          <<WithNP({0}), WithNP({1}), {0}>>

(* The last step was a call of the function op *)
AnFnCalled(op) == last.op = op /\ Len(trace) = 2

(* The speed an ability bit names *)
AN73AbilitySpeed ==
    [a \in FM10000_AN73_SUPPORTED_ABILITIES |->
        CASE a = "1000BASE_KX" -> "1G"
          [] a = "10GBASE_KR" -> "10G"
          [] a \in {"25GBASE_KR", "25GBASE_CR"} -> "25G"
          [] a \in {"40GBASE_KR4", "40GBASE_CR4"} -> "40G"
          [] OTHER -> "100G"]

(* C22: for an_mode = CLAUSE_73 and a base page whose ability field is     *)
(* non-zero, an_validate_base_page returns UNSUPPORTED exactly when the    *)
(* ability field is zero after masking off the unsupported bits or some    *)
(* remaining ability bit among 1000BASE-KX, 10GBASE-KR, 25GBASE-KR,        *)
(* 25GBASE-CR, 40GBASE-KR4, 40GBASE-CR4, 100GBASE-KR4, 100GBASE-CR4 names  *)
(* a speed absent from the port's declared capabilities; otherwise it      *)
(* returns OK with the masked ability written into the modified base page. *)
(* On UNSUPPORTED the modified base page is not written.                   *)
C22_ValidateBasePage ==
    (/\ AnFnCalled("fm10000AnValidateBasePage")
     /\ trace[1].a.mode = "CLAUSE_73"
     /\ trace[1].a.basepage.A # {}) =>
        LET in == trace[1].a
            capabilities == trace[1].b
            masked == in.basepage.A \cap FM10000_AN73_SUPPORTED_ABILITIES
            unsupported ==
                \/ masked = {}
                \/ \E a \in masked : AN73AbilitySpeed[a] \notin capabilities
        IN  IF unsupported
            THEN /\ trace[2].status = FM_ERR_UNSUPPORTED
                 /\ trace[2].a = in.modBasePage
            ELSE /\ trace[2].status = FM_OK
                 /\ trace[2].a = [in.modBasePage EXCEPT !.A = masked]

(* The result of validating the page the last call returned, with the     *)
(* caller's result variable prepared the way it was for the last call     *)
(* (holding the page to validate, or the same unrelated page)             *)
ValidatedAgain ==
    LET in == trace[1].a
        m == trace[2].a
    IN  AnValidateBasePage(in.mode, m, trace[1].b,
                           IF in.modBasePage = in.basepage THEN m
                           ELSE in.modBasePage)

(* C23: an_validate_base_page is idempotent: for every base page p, port   *)
(* capability set and an_mode for which the validation of p succeeds,      *)
(* validating the returned modified base page succeeds and returns the     *)
(* same modified base page.                                                *)
C23_ValidateIdempotent ==
    (/\ AnFnCalled("fm10000AnValidateBasePage")
     /\ trace[2].status = FM_OK) =>
        /\ ValidatedAgain.status = FM_OK
        /\ ValidatedAgain.modBasePage = trace[2].a

(* A successful Clause 73 validation that cleared an unsupported ability   *)
C23_Witness ==
    /\ AnFnCalled("fm10000AnValidateBasePage")
    /\ trace[2].status = FM_OK
    /\ trace[1].a.mode = "CLAUSE_73"
    /\ trace[1].a.basepage.A = {"10GBASE_KR", "10GBASE_KX4"}
    /\ trace[1].a.modBasePage = trace[1].a.basepage
    /\ trace[2].a.A = {"10GBASE_KR"}

(* The ethernet modes of the eight HCD codes that have one *)
HcdEthModes ==
    [h \in {"AN73_HCD_KX", "AN73_HCD_10_KR", "AN73_HCD_40_CR4",
            "AN73_HCD_40_KR4", "AN73_HCD_100_KR4", "AN73_HCD_100_CR4",
            "AN73_HCD_25_KR", "AN73_HCD_25_CR"} |->
        CASE h = "AN73_HCD_KX" -> "1000BASE_KX"
          [] h = "AN73_HCD_10_KR" -> "10GBASE_KR"
          [] h = "AN73_HCD_40_CR4" -> "40GBASE_CR4"
          [] h = "AN73_HCD_40_KR4" -> "40GBASE_KR4"
          [] h = "AN73_HCD_100_KR4" -> "100GBASE_KR4"
          [] h = "AN73_HCD_100_CR4" -> "100GBASE_CR4"
          [] h = "AN73_HCD_25_KR" -> "25GBASE_KR"
          [] OTHER -> "25GBASE_CR"]

(* C24: hcd_to_eth_mode is total over the HCD codes: the eight defined     *)
(* codes KX, 10_KR, 40_CR4, 40_KR4, 100_KR4, 100_CR4, 25_KR, 25_CR map to  *)
(* eight pairwise distinct ethernet modes (no other of the eight codes is  *)
(* mapped to the mode returned for one of them), and every other code,     *)
(* KX4, 100_CR10, 100_KP4 and INCOMPATIBLE included, maps to DISABLED.     *)
C24_HcdToEthMode ==
    AnFnCalled("fm10000An73HcdToEthMode") =>
        LET hcd == trace[1].a
            ethMode == trace[2].a
        IN  IF hcd \in DOMAIN HcdEthModes
            THEN /\ ethMode = HcdEthModes[hcd]
                 /\ ethMode # "DISABLED"
                 /\ \A h \in DOMAIN HcdEthModes \ {hcd} :
                       An73HcdToEthMode(h) # ethMode
            ELSE ethMode = "DISABLED"

(* The 40G-CR4 code was translated *)
C24_Witness ==
    /\ AnFnCalled("fm10000An73HcdToEthMode")
    /\ trace[1].a = "AN73_HCD_40_CR4"
    /\ trace[2].a = "40GBASE_CR4"

(* 10^n *)
RECURSIVE Pow10(_)
Pow10(n) == IF n = 0 THEN 1 ELSE 10 * Pow10(n - 1)

(* C25: for every desired timeout in microseconds and every hardware       *)
(* maximum count max, an_get_time_scale returns (ts, n) with n < max and   *)
(* with the returned effective timeout differing from the desired timeout  *)
(* by less than 10^(ts-1) microseconds.                                    *)
C25_TimeScale ==
    AnFnCalled("fm10000AnGetTimeScale") =>
        LET timeoutUsec == trace[1].a
            timeoutMax == trace[1].b
            r == trace[2].a
        IN  /\ r.timeout < timeoutMax
            /\ timeoutUsec - r.ret < Pow10(r.timeScale - 1)
            /\ r.ret - timeoutUsec < Pow10(r.timeScale - 1)

(* The last step was a call of the timer setter op *)
TimerSet(op) == last.op = op /\ Len(trace) = 2

(* The timeout of the last call may be stored *)
TimeoutInRange ==
    /\ trace[1].a >= 1
    /\ trace[1].a <= (IF trace[1].b THEN 1023 ELSE 511)

ExtTechAbilityPageAt(np, oui25G, i) ==
    /\ i >= 1
    /\ i + 1 <= np.numPages
    /\ FieldOf(np.nextPages[i], 0, 11) = 5
    /\ FieldOf(np.nextPages[i + 1], 0, 9) = 3
    /\ NextPageOui(np.nextPages[i], np.nextPages[i + 1]) = oui25G

(* The next pages np contain a matching-OUI extended technology ability    *)
(* page with bit 20 or 21 set                                              *)
NextPagesCarry25G(np, oui25G) ==
    \E i \in 1..np.numPages :
        /\ ExtTechAbilityPageAt(np, oui25G, i)
        /\ {20, 21} \cap np.nextPages[i + 1] # {}

(* C27: an_get_max_speed_ability_and_mode for CLAUSE_73 returns the first  *)
(* match in the priority 100G (100000, QUAD), 40G (40000, QUAD), 25G       *)
(* (25000, SINGLE), 10G (10000, SINGLE), 1G-KX (2500, SINGLE) over the     *)
(* ability set (the ability field of the base page, or when the base page  *)
(* is 0 the supported set with 40G / 100G removed if the port is not       *)
(* capable of them), where 25G is matched also when the next pages contain *)
(* a matching-OUI extended technology ability page with bit 20 or 21 set;  *)
(* for CLAUSE_37 and SGMII it returns (1000, SINGLE); for any other mode   *)
(* it returns UNSUPPORTED.  (A call in which a collaborator fails returns  *)
(* that status and is not constrained here.)                               *)
C27_MaxSpeedPriority ==
    AnFnCalled("fm10000AnGetMaxSpeedAbilityAndMode") =>
        LET in == trace[1].a
            caps == trace[1].b
            got == trace[2].a
            ability ==
                IF in.basepage = ZeroBasePage
                THEN {a \in FM10000_AN73_SUPPORTED_ABILITIES :
                        /\ AN73AbilitySpeed[a] = "40G" => caps.is40GCapable
                        /\ AN73AbilitySpeed[a] = "100G" => caps.is100GCapable}
                ELSE in.basepage.A
            speeds == {AN73AbilitySpeed[a] :
                         a \in ability \cap FM10000_AN73_SUPPORTED_ABILITIES}
                      \cup (IF NextPagesCarry25G(in.nextPages,
                                                 AutoNeg25GNxtPgOui)
                            THEN {"25G"} ELSE {})
            speed(s, l) == [maxSpeed |-> s, laneMode |-> l]
        IN  CASE in.mode = "CLAUSE_73" ->
                   trace[2].status = FM_OK =>
                       got = CASE "100G" \in speeds -> speed(100000, "QUAD")
                               [] "40G" \in speeds -> speed(40000, "QUAD")
                               [] "25G" \in speeds -> speed(25000, "SINGLE")
                               [] "10G" \in speeds -> speed(10000, "SINGLE")
                               [] "1G" \in speeds -> speed(2500, "SINGLE")
                               [] OTHER -> got
              [] in.mode \in {"CLAUSE_37", "SGMII"} ->
                   trace[2].status = FM_OK /\ got = speed(1000, "SINGLE")
              [] OTHER -> trace[2].status = FM_ERR_UNSUPPORTED

(* The steps of the thread between taking and dropping the switch lock *)
ThreadInSweeps ==
    threadPc \in {"polling", "retryRead", "retryConfig", "update", "drop"}

(* The iteration has called a sweep or cleared pollingPendingTask *)
ThreadHasSwept == iter.sweeps # <<>> \/ iter.cleared

(* C28: the management thread calls its sweeps and clears the pending flag *)
(* only while it holds the switch lock: an iteration whose acquisition     *)
(* failed goes back to the wait with no sweep called, the pending flag as  *)
(* it was and the lock not held, and an iteration that acquired the lock   *)
(* holds it through its sweeps and has dropped it exactly once when it     *)
(* waits again                                                             *)
C28_SweepsUnderSwitchLock ==
    /\ [](/\ ThreadInSweeps => switchLock /\ iter.taken = 1 /\ iter.dropped = 0
          /\ ~ThreadInSweeps => ~switchLock /\ iter.dropped = iter.taken
          /\ ThreadHasSwept => iter.taken = 1
          /\ iter.taken <= 1)
    /\ [][/\ (threadPc = "lock" /\ threadPc' = "wait")
               => /\ iter'.taken = 0
                  /\ ~ThreadHasSwept'
                  /\ pollingPendingTask' = pollingPendingTask
          /\ (iter'.sweeps # iter.sweeps /\ iter'.sweeps # <<>>)
               => switchLock /\ switchLock'
          /\ (pollingPendingTask /\ ~pollingPendingTask')
               => switchLock /\ switchLock']_vars

(* C28 witness: an iteration that acquired the lock, cleared the flag, ran *)
(* the three sweeps and dropped the lock is waiting again                  *)
C28_Witness ==
    /\ threadPc = "wait"
    /\ iter.taken = 1
    /\ iter.dropped = 1
    /\ iter.cleared
    /\ iter.sweeps = <<"XcvrRetryEepromRead", "XcvrRetryConfig", "XcvrUpdateState">>


(* The iteration was woken by a signal of fmPlatformMgmtSignalPollingThread, *)
(* has taken the switch lock and is past the test of the polling task        *)
WokenByPollingSignal ==
    /\ "fmPlatformMgmtSignalPollingThread" \in iter.wokenBy
    /\ iter.taken = 1
    /\ threadPc \in {"update", "drop", "wait"}

(* C29: an iteration of the thread that the signal of                      *)
(* fmPlatformMgmtSignalPollingThread woke, with the management enabled     *)
(* and the switch lock acquired, has run XcvrRetryEepromRead and           *)
(* XcvrRetryConfig once it is past the test of the polling task            *)
C29_PollingSignalRunsRetries ==
    WokenByPollingSignal
        => /\ Len(iter.sweeps) >= 2
           /\ iter.sweeps[1] = "XcvrRetryEepromRead"
           /\ iter.sweeps[2] = "XcvrRetryConfig"

(* The ports of the collaborator calls of tr that are made for a port *)
PortsCalled(tr) ==
    LET forPort == SelectSeq(tr, LAMBDA e : e.port # -1)
    IN  [i \in DOMAIN forPort |-> forPort[i].port]

(* No element of seq is followed by a smaller one *)
Ascending(seq) ==
    \A i, j \in DOMAIN seq : i < j => seq[i] <= seq[j]

(* C30: every sweep of the management thread goes through its ports in     *)
(* ascending order of port index: the list of ports an XcvrUpdateState     *)
(* sweep processes, polled or filled from the pending interrupts, is       *)
(* ascending, and the calls XcvrRetryEepromRead and XcvrRetryConfig make   *)
(* are made for ascending ports                                            *)
C30_SweepsAscending ==
    /\ pc = "update" => Ascending(list)
    /\ last.op \in {"XcvrRetryEepromRead", "XcvrRetryConfig"}
         => Ascending(PortsCalled(trace))

(* The divisor of a time scale: 1 for the scale 2, 10^5 for the scale 7 *)
TimeScaleDivisor(timeScale) == Pow10(timeScale - 2)

(* The result of fm10000AnGetTimeScale is the first pair of the scan of    *)
(* the time scales 2..7 whose count is below the maximum                   *)
FirstFittingTimeScale(timeoutUsec, timeoutMax, r) ==
    /\ r.timeScale \in 2..7
    /\ r.timeout = timeoutUsec \div TimeScaleDivisor(r.timeScale)
    /\ r.timeout < timeoutMax
    /\ \A s \in 2..(r.timeScale - 1) :
          timeoutUsec \div TimeScaleDivisor(s) >= timeoutMax
    /\ r.ret = TimeScaleDivisor(r.timeScale) * r.timeout

(* C39: for every desired timeout and hardware maximum the time scale      *)
(* fm10000AnGetTimeScale returns lies in 2..7 and is, with the count, the  *)
(* first pair of the scan 2, 3, ..., 7 whose count is below the maximum,   *)
(* and the value returned is the divisor of that scale times the count     *)
C39_TimeScaleFirstFit ==
    AnFnCalled("fm10000AnGetTimeScale") =>
        FirstFittingTimeScale(trace[1].a, trace[1].b, trace[2].a)

(* The indexes, counted from 0, of the unformatted pages of np that follow *)
(* an OUI message page and carry the extended technology ability with the  *)
(* configured OUI                                                          *)
ExtTechAbilityIndexes(np, oui25G) ==
    {i \in 1..np.numPages : ExtTechAbilityPageAt(np, oui25G, i)}

(* C36: the scan returns FM_OK with the index of an unformatted page       *)
(* exactly when some page of the list with the OUI message code is         *)
(* immediately followed by a page of the list whose bits 8..0 are 3 and    *)
(* whose reassembled OUI is the configured one; the index is that of the   *)
(* matching unformatted page; otherwise it returns FM_ERR_NOT_FOUND        *)
C36_ScanExact ==
    AnFnCalled("fm10000AnGetNextPageExtTechAbilityIndex") =>
        LET matches == ExtTechAbilityIndexes(trace[1].a,
                           portAttr[trace[1].port].autoNeg25GNxtPgOui)
        IN  IF matches # {}
            THEN /\ trace[2].status = FM_OK
                 /\ trace[2].a.extTechAbIndex \in matches
            ELSE trace[2].status = FM_ERR_NOT_FOUND

(* C38: the scan reads no page at an index at or after numPages, whatever  *)
(* the pages and also when the last page is an OUI message page, and an    *)
(* index returned with FM_OK is below numPages                             *)
C38_ScanReadsWithinList ==
    AnFnCalled("fm10000AnGetNextPageExtTechAbilityIndex") =>
        /\ \A i \in trace[2].a.reads : i < trace[1].a.numPages
        /\ trace[2].status = FM_OK =>
              trace[2].a.extTechAbIndex < trace[1].a.numPages

(* The call of fm10000AnRestartOnNewConfig that has just returned failed   *)
(* to start the new state machine                                          *)
AnStartFailed ==
    /\ last.op = "fm10000AnRestartOnNewConfig"
    /\ \E i \in DOMAIN trace : /\ trace[i].op = "fmStartStateMachine"
                               /\ trace[i].status # FM_OK

(* C40: after any fm10000AnRestartOnNewConfig call, whatever it returns,   *)
(* a port whose anSmType names a real state machine type has a state       *)
(* machine of that type started on anSmHandle, and a call in which the     *)
(* start of the new state machine failed has sent no AN_CONFIG_REQ         *)
C40_SmStartedWhenTyped ==
    /\ \A port \in AnPorts :
          portExt[port].anSmType # FM_SMTYPE_UNSPECIFIED =>
              /\ portExt[port].anSm.running
              /\ portExt[port].anSm.type = portExt[port].anSmType
    /\ AnStartFailed =>
          \A i \in DOMAIN trace :
              trace[i].a # "FM10000_PORT_EVENT_AN_CONFIG_REQ"

(* The last step was an update-state entry that saw the valid ENABLE bit   *)
(* of portIdx change and did not go on to configure the module             *)
EnableChangedOnly(portIdx) ==
    /\ last.op = "XcvrUpdateState"
    /\ Calls("EnableChanged", portIdx) # {}
    /\ Calls("ConfigureSfppXcvr", portIdx) = {}

(* C33: when update-state detects a valid ENABLE change on a port, of any  *)
(* index, that port's an_enabled is cleared, its config_retries is set to  *)
(* 0 (and stays 0 unless the same entry goes on to configure the module),  *)
(* and the port is notified                                                *)
C33_EnableChangeResetsPort ==
    \A p \in PortIdxs :
        EnableChangedOnly(p) =>
            /\ ~xcvrInfo[p].anEnabled
            /\ xcvrInfo[p].configRetries = 0
            /\ Calls("EventSendPortXcvrState", p) # {}

(* C37: an entry of an update-state pass changes the transceiver record of *)
(* the port it processes only: the EEPROM cache, config_retries,           *)
(* an_enabled and every other field of every other port, port index 0      *)
(* included, are as they were                                              *)
C37_UpdateStateFrame ==
    [][(last'.op = "XcvrUpdateState" /\ last'.portIdx # -1)
          => \A q \in PortIdxs \ {last'.portIdx} : xcvrInfo'[q] = xcvrInfo[q]]_vars

(* The last step was a retry-eeprom-read sweep whose read of the enabled   *)
(* SFP+ module of portIdx succeeded with a valid base checksum             *)
RetryReadSucceeded(portIdx) ==
    /\ last.op = "XcvrRetryEepromRead"
    /\ cfg.ports[portIdx].intfType = "SFPP"
    /\ "ENABLE" \in xcvrInfo[portIdx].modState
    /\ xcvrInfo[portIdx].eepromBaseValid
    /\ \E i \in Calls("XcvrEepromRead", portIdx) :
          trace[i].a = "retry" /\ trace[i].status = FM_OK

(* What the sweep itself does on that path: the retries are zeroed, the    *)
(* SerDes is updated once and the module is not configured                 *)
RetryReadUpdatesSerdesOnly ==
    \A p \in PortIdxs :
        RetryReadSucceeded(p) =>
            /\ xcvrInfo[p].eepromReadRetries = 0
            /\ Cardinality(Calls("UpdateSerdesSettings", p)) = 1
            /\ Calls("ConfigureSfppXcvr", p) = {}

(* C35: when the retry-eeprom-read sweep succeeds in reading an enabled    *)
(* SFP+ module with a valid base checksum, it zeroes eeprom_read_retries   *)
(* and updates the SerDes without configuring the module, and the          *)
(* retry-config sweep that follows calls ConfigureSfppXcvr for the module  *)
(* with no further change of the module state or of the Ethernet mode      *)
C35_RetryReadThenConfig ==
    /\ []RetryReadUpdatesSerdesOnly
    /\ [][\A p \in PortIdxs :
            (RetryReadSucceeded(p) /\ last'.op = "XcvrRetryConfig")
               => CallsIn(trace', "ConfigureSfppXcvr", p) # {}]_vars


(* The ConfigureSfppXcvr calls of a step for a port *)
ConfigAttempts(tr, portIdx) == CallsIn(tr, "ConfigureSfppXcvr", portIdx)

(* C34: configRetries is the number of configure attempts an SFP+ port     *)
(* still has: it never exceeds MAX_CONFIG_RETRY; a step makes at most one  *)
(* attempt for a port; the inline attempt of UpdateXcvrConfig that fails   *)
(* leaves MAX_CONFIG_RETRY - 1 further attempts; a retry-config sweep      *)
(* attempts only with a positive counter and a failing attempt takes one   *)
(* away; a successful attempt zeroes the counter at once; with the counter *)
(* at 0 a sweep makes no attempt; and a step without an attempt leaves the *)
(* counter, zeroes it, or arms it with MAX_CONFIG_RETRY.  So a module      *)
(* whose configuration always fails is tried at most MAX_CONFIG_RETRY      *)
(* times after one scheduling and is then left with config_retries = 0.    *)
C34_ConfigAttemptsBounded ==
    /\ [](\A p \in PortIdxs : xcvrInfo[p].configRetries \in 0..MAX_CONFIG_RETRY)
    /\ [][\A p \in PortIdxs : cfg.ports[p].intfType = "SFPP" =>
            LET att == ConfigAttempts(trace', p)
                c   == xcvrInfo[p].configRetries
                c2  == xcvrInfo'[p].configRetries
            IN  /\ Cardinality(att) <= 1
                /\ \A i \in att :
                      IF trace'[i].status = FM_OK THEN c2 = 0
                      ELSE IF last'.op = "XcvrRetryConfig"
                           THEN c > 0 /\ c2 = c - 1
                           ELSE c2 = MAX_CONFIG_RETRY - 1
                /\ att = {} =>
                      IF last'.op = "XcvrRetryConfig"
                      THEN c2 = c /\ (c = 0 \/ ~xcvrInfo[p].eepromBaseValid)
                      ELSE c2 \in {c, 0, MAX_CONFIG_RETRY}
         ]_vars

(* C34 witness: the attempt of a retry-config sweep failed and used up the *)
(* last of the configure attempts of an SFP+ port                          *)
C34_Witness ==
    /\ last.op = "XcvrRetryConfig"
    /\ \E p \in PortIdxs :
        /\ cfg.ports[p].intfType = "SFPP"
        /\ xcvrInfo[p].configRetries = 0
        /\ \E i \in Calls("ConfigureSfppXcvr", p) : trace[i].status # FM_OK


(* The last step was the XcvrUpdateState iteration of a port, it logged a  *)
(* valid change of one of the bits of chg, and the state it stored has the *)
(* module present and enabled                                              *)
NotifiedPresentEnabled(portIdx, chg) ==
    /\ last.op = "XcvrUpdateState"
    /\ last.portIdx = portIdx
    /\ \E op \in chg : Calls(op, portIdx) # {}
    /\ {"PRESENT", "ENABLE"} \subseteq xcvrInfo[portIdx].modState

(* The upward notifications of the last step for a port *)
UpwardNotifications(portIdx) ==
    Calls("NotifyXcvrChange", portIdx) \cup Calls("EventSendPortXcvrState", portIdx)

(* One EEPROM read without the retry flag; when it succeeds, one SerDes    *)
(* update and then one ConfigureSfppXcvr call that leaves configRetries at *)
(* 0 on success and at MAX_CONFIG_RETRY - 1 on failure, and at 0 for a     *)
(* module that needs no I2C writes; the notification comes after them all  *)
ReadConfiguredThenNotified(portIdx) ==
    LET rd  == Calls("XcvrEepromRead", portIdx)
        sd  == Calls("UpdateSerdesSettings", portIdx)
        cf  == Calls("ConfigureSfppXcvr", portIdx)
        x   == xcvrInfo[portIdx]
    IN  /\ Cardinality(rd) = 1
        /\ \A i \in rd :
              /\ trace[i].a = "first"
              /\ IF trace[i].status = FM_OK
                 THEN /\ Cardinality(sd) = 1
                      /\ Cardinality(cf) = 1
                      /\ \A s \in sd, c \in cf :
                            /\ i < s /\ s < c
                            /\ x.configRetries =
                                 IF trace[c].status = FM_OK THEN 0
                                 ELSE MAX_CONFIG_RETRY - 1
                      /\ (~IsSfppModuleDualRate(x) /\ ~IsSfppModule1000BaseT(x))
                            => x.configRetries = 0
                 ELSE sd = {} /\ cf = {}
        /\ Calls("EventSendPortXcvrState", portIdx) # {}
        /\ \A n \in UpwardNotifications(portIdx), i \in rd \cup sd \cup cf : i < n

C31_StateAppliedToQueriedPort ==
    /\ (last.op = "XcvrUpdateState" /\ last.portIdx # -1) =>
          \A i \in DOMAIN trace :
              trace[i].op = "GetPortXcvrState" =>
                  cfg.ports[last.portIdx].hwResourceId = trace[i].b[1]
    /\ pc = "update" =>
          \A k \in DOMAIN list : cfg.ports[list[k]].hwResourceId = hwResIdList[k]

====
